---- MODULE Spec2Model ----
(***************************************************************************)
(* A model of the resource-lifetime and GPU synchronisation core of        *)
(* learn-vulkan: the frame-in-flight pacer (MasterEngine::draw), the       *)
(* descriptor buffer updater protocol, command submission, the pipeline    *)
(* barrier batch, and the owned-handle wrappers.                           *)
(*                                                                         *)
(* Each component has its own group of variables and its own               *)
(* specification; the variables of the other components stay at their      *)
(* initial values.                                                         *)
(***************************************************************************)
EXTENDS Integers, Sequences, FiniteSets, TLC

(***************************************************************************)
(* Bounds of the model.                                                    *)
(***************************************************************************)
\* number of draw calls the main loop makes
MaxDraws == 5

(***************************************************************************)
(* Program constants.                                                      *)
(***************************************************************************)
\* EngineSetting::MaxFrameInFlight
MaxFrameInFlight == 2

Slots == 0 .. (MaxFrameInFlight - 1)

\* createTimelineSemaphore(ctx.Device, 0ull) and .FrameCounter = 0ull
InitialTimelineValue == 0

(***************************************************************************)
(* General helpers.                                                        *)
(***************************************************************************)
SeqToSet(s) == { s[i] : i \in 1 .. Len(s) }

MaxOf(S, dflt) == IF S = {} THEN dflt ELSE CHOOSE x \in S : \A y \in S : y <= x

MinOf(S) == CHOOSE x \in S : \A y \in S : x <= y

VARIABLES
    \* ---- frame-in-flight pacer (MasterEngine) ----
    FrameInFlightIndex, \* MasterEngine::FrameInFlightIndex
    FrameCounter,       \* DrawSync[k].FrameCounter
    timeline,           \* GPU-side value of DrawSync[k].WaitFrame
    signalLog,          \* per slot, the values that submissions signal on WaitFrame, in submission order
    drawPc,             \* position of the host inside MasterEngine::draw
    waitValue,          \* the value passed to SemaphoreManager::wait by the running draw
    observed,           \* per slot, the highest value a host wait has returned for
    lastReset,          \* what was true at the most recent vkResetCommandPool of an in-flight pool
    lastSubmit,         \* the wait value and signal value of the most recent submission of draw
    drawResult,         \* how the most recent draw call ended
    drawCalls,          \* number of draw calls started
    binPending,         \* per slot and binary semaphore, the signals no wait has consumed yet
    presentWaits,       \* per slot, the waits on RenderFinish that presents have enqueued and not executed
    hostWaited,         \* the members of DrawSync the host has waited on
    drawTrace,          \* the submission attempts and present calls of the most recent draw call
    poolEpoch,          \* per in-flight pool: the draw call that last reset it, the buffers begun since
    lastBegin,          \* the command buffers the renderer began in the most recent draw
    lastCameraWrite,    \* what the most recent host write to a camera buffer copy met
    \* ---- descriptor buffer manager ----
    dbmConstructed,     \* whether DescriptorBufferManager's constructor has run
    Offset,             \* DescriptorBufferManager::Offset, one offset per descriptor set
    dbTotalSize,        \* the size of the buffer behind DescriptorBufferManager::DescriptorBuffer
    UpdaterAlive,       \* DescriptorBufferManager::UpdaterAlive
    Flush,              \* DescriptorBufferManager::Flush, a list of (allocation, offset, size)
    liveUpdaters,       \* the DescriptorUpdater objects whose constructor returned and that are not destroyed
    mapCount,           \* how many times the backing allocation is currently mapped
    sessionRanges,      \* the ranges recorded by update calls since the live updater was created
    lastCreate,         \* what the most recent createUpdater call did
    lastDestroy,        \* what the most recent updater destruction did
    lastUpdate,         \* what the most recent update call did
    dbTerminated,       \* std::terminate was called: an exception left a destructor
    dbLayouts,          \* the descriptor set layouts the manager was constructed with
    dbAlignment,        \* descriptorBufferOffsetAlignment of the device the manager was constructed on
    dbLastOp,           \* the most recent operation on the manager
    \* ---- command submission (CommandBufferManager::submit) ----
    fenceSignaled,      \* per fence, whether it is in the signaled state
    queue,              \* the fences of the submissions the queue has not finished, oldest first
    lastSubmitCall,     \* the fence, the API calls and the outcome of the most recent submit call
    \* ---- pipeline barrier batch (PipelineBarrier over FixedArray) ----
    batchBuilt,         \* whether a PipelineBarrier object has been constructed
    NDEBUG,             \* whether the build defines NDEBUG, which compiles assert out
    batch,              \* per barrier kind, the FixedArray: its Array storage and its Size
    batchAborted,       \* an assert failed and the program was aborted
    strayWrites,        \* number of writes that landed outside the batch's storage
    lastAdd,            \* what the most recent add*Barrier call met and did
    lastRecord,         \* the dependency command of the most recent record call
    lastClear,          \* the clear call no append has followed, and how many barriers it dropped
    appended,           \* per kind, the barriers the caller has appended since the last clear
    recordedLast,       \* TRUE when the last operation on the batch was a record
    \* ---- owned handles (VulkanObject::_Internal::UniqueHandle) ----
    wrapper,            \* per wrapper object, whether it exists and the native handle it holds
    created,            \* the native objects that have been created
    freeCalls,          \* per native object, the number of native free calls made for it
    freedBy,            \* per native object, the wrapper that made the latest free call
    firstOwner,         \* per native object, the wrapper that was constructed from it
    lastOwner,          \* per native object, the wrapper that received it last
    lastWrapperDestroy, \* what the most recent wrapper destruction met and did
    \* ---- paired resources (VulkanObject::BufferAllocation / ImageAllocation) ----
    pairs,              \* per std::pair object, whether it exists and its .first and .second
    pairCreated,        \* the buffers (with their allocations) that have been created
    lastRelease,        \* the native calls made by the most recent operation that released objects
    \* ---- one-off setup submissions (SimpleTerrain and SimpleWater constructors) ----
    renderWater,        \* render_water: whether the terrain is created with water
    setupStage,         \* the setup submission the constructor is working on
    setupPc,            \* position of the host within that submission
    setupAlive,         \* the buffers and acceleration structures that exist
    setupSubmitted,     \* the setup submissions that were handed to the queue
    setupQueue,         \* the setup submissions the device has not executed, oldest first
    setupSema,          \* per timeline semaphore, its value on the device
    setupObserved,      \* per timeline semaphore, the highest value a host wait returned for
    destroyLog,         \* per destroyed object, the submissions using it that the host had not observed
    \* ---- acceleration structure compaction (AccelStructManager::compactAccelStruct) ----
    buildSubmitted,     \* the command buffer with the build was handed to the queue
    buildSize,          \* the compacted size the build will write to the query
    deviceCommands,     \* the commands of that command buffer the device has not executed, in order
    queryState,         \* the state of the compaction-size query
    queryValue,         \* the 32 bit value stored in the query
    compactPc,          \* position of the host inside compactAccelStruct
    size,               \* the local `size` of compactAccelStruct
    compactedBuffer,    \* the size compacted_buf was created with, 0 while it does not exist
    lastQueryRead,      \* the query state the most recent vkGetQueryPoolResults returned from
    \* ---- command buffer recording (CommandBufferManager::beginOneTimeSubmit, vkEndCommandBuffer) ----
    recorderBuilt,      \* whether the build and the command pool have been chosen
    EnableValidation,   \* EngineSetting::EnableValidation: validation layers and the debug callback are on
    poolResettable,     \* the pool was created with VK_COMMAND_POOL_CREATE_RESET_COMMAND_BUFFER_BIT
    cmdState,           \* per command buffer, its lifecycle state
    lastRecording,      \* what the most recent begin or end call met and how it ended
    IgnoredMessageID,   \* VulkanContext::IgnoredMessageID
    lastIdentifier,     \* the identifier the most recent disableMessage returned
    lastMessage,        \* what the debug callback did with the most recent message
    scopes,             \* the open disable/enable scopes, outermost first: id muted, identifier held
    nestedOnly,         \* TRUE while every scope ended so far was the innermost open one
    lastEnd,            \* what the most recent enableMessage of a scope did
    loopPc,             \* where runApplication is: start, running, caught (in the catch block), left
    AttachedRenderer,   \* whether MasterEngine::AttachedRenderer is not null
    canvas_event,       \* CanvasEventStatus: NeedReshape and CursorMoved
    shouldClose,        \* glfwWindowShouldClose
    framesDrawn,        \* how many draw calls have returned
    drawError,          \* what the draw call of the current iteration raised
    cleanUpCalls,       \* the calls the most recent clean_up made
    propagated,         \* the error that left runApplication
    checksMade,         \* how many CHECK_VULKAN_ERROR sites have been passed
    apiCalls,           \* how many times the checked API functions were called
    lastCheck,          \* the most recent checked call: its result, its place, and what was raised
    lastBuild,          \* the arguments and the result of the most recent buildAccelStruct call
    recorded,           \* the commands that call recorded into the command buffer
    buildLive,          \* the objects that call returned: storage buffer, structure, scratch buffer
    structure,          \* the acceleration structure on the device once the commands are executed
    rsPc,               \* the call of MasterEngine::reshape made next, 0 outside reshape
    rsLeft,             \* reshape has thrown and the application has left its loop
    rsAttached,         \* a renderer is attached to the engine
    rsPending,          \* submitted work the render queue has not finished
    rsSwapChain,        \* MasterEngine::SwapChain: alive or destroyed
    rsCmdState,         \* lifecycle state of the renderer's command buffer of the Reshape pool
    rsWaited,           \* the device-idle wait of the current reshape has returned VK_SUCCESS
    rsCount,            \* reshapes completed
    lastTeardown        \* what the most recent swapchain destruction or Reshape pool reset met

drawVars == << FrameInFlightIndex, FrameCounter, timeline, signalLog, drawPc, waitValue,
               observed, lastReset, lastSubmit, drawResult, drawCalls,
               binPending, presentWaits, hostWaited, drawTrace,
               poolEpoch, lastBegin, lastCameraWrite >>

dbVars == << dbmConstructed, Offset, dbTotalSize, UpdaterAlive, Flush, liveUpdaters, mapCount,
             sessionRanges, lastCreate, lastDestroy, lastUpdate,
             dbTerminated, dbLayouts, dbAlignment, dbLastOp >>

submitVars == << fenceSignaled, queue, lastSubmitCall >>

batchVars ==
    << batchBuilt, NDEBUG, batch, batchAborted, strayWrites, lastAdd, lastRecord, lastClear,
       appended, recordedLast >>

handleVars == << wrapper, created, freeCalls, freedBy, firstOwner, lastOwner, lastWrapperDestroy >>

pairVars == << pairs, pairCreated, lastRelease >>

setupVars == << renderWater, setupStage, setupPc, setupAlive, setupSubmitted, setupQueue,
                setupSema, setupObserved, destroyLog >>

compactVars == << buildSubmitted, buildSize, deviceCommands, queryState, queryValue,
                  compactPc, size, compactedBuffer, lastQueryRead >>

recordVars == << recorderBuilt, EnableValidation, poolResettable, cmdState, lastRecording >>

messageVars == << IgnoredMessageID, lastIdentifier, lastMessage, scopes, nestedOnly, lastEnd >>

loopVars == << loopPc, AttachedRenderer, canvas_event, shouldClose, framesDrawn, drawError, cleanUpCalls, propagated >>

checkVars == << checksMade, apiCalls, lastCheck >>

asbuildVars == << lastBuild, recorded, buildLive, structure >>

reshapeVars == << rsPc, rsLeft, rsAttached, rsPending, rsSwapChain, rsCmdState, rsWaited, rsCount, lastTeardown >>

vars == << reshapeVars, asbuildVars, checkVars, loopVars, messageVars, drawVars, dbVars, submitVars, batchVars, handleVars, pairVars, setupVars, compactVars,
           recordVars >>

\* the draw loop touches nothing of the other components
DrawOnly == UNCHANGED << reshapeVars, asbuildVars, checkVars, loopVars, messageVars, setupVars, compactVars, recordVars, dbVars, submitVars, batchVars, handleVars, pairVars >>

\* the descriptor buffer manager touches nothing of the other components
DbOnly == UNCHANGED << reshapeVars, asbuildVars, checkVars, loopVars, messageVars, setupVars, compactVars, recordVars, drawVars, submitVars, batchVars, handleVars, pairVars >>

\* command submission touches nothing of the other components
SubmitOnly == UNCHANGED << reshapeVars, asbuildVars, checkVars, loopVars, messageVars, setupVars, compactVars, recordVars, drawVars, dbVars, batchVars, handleVars, pairVars >>

\* the barrier batch touches nothing of the other components
BatchOnly == UNCHANGED << reshapeVars, asbuildVars, checkVars, loopVars, messageVars, setupVars, compactVars, recordVars, drawVars, dbVars, submitVars, handleVars, pairVars >>

\* the handle wrappers touch nothing of the other components
HandleOnly == UNCHANGED << reshapeVars, asbuildVars, checkVars, loopVars, messageVars, setupVars, compactVars, recordVars, drawVars, dbVars, submitVars, batchVars, pairVars >>

\* the paired resources touch nothing of the other components
PairOnly == UNCHANGED << reshapeVars, asbuildVars, checkVars, loopVars, messageVars, setupVars, compactVars, recordVars, drawVars, dbVars, submitVars, batchVars, handleVars >>

\* the setup submissions touch nothing of the other components
SetupOnly == UNCHANGED << reshapeVars, asbuildVars, checkVars, loopVars, messageVars, recordVars, compactVars, drawVars, dbVars, submitVars, batchVars, handleVars, pairVars >>

\* compaction touches nothing of the other components
CompactOnly == UNCHANGED << reshapeVars, asbuildVars, checkVars, loopVars, messageVars, recordVars, setupVars, drawVars, dbVars, submitVars, batchVars,
                            handleVars, pairVars >>

\* command buffer recording touches nothing of the other components
RecordOnly == UNCHANGED << reshapeVars, asbuildVars, checkVars, loopVars, messageVars, compactVars, setupVars, drawVars, dbVars, submitVars, batchVars,
                           handleVars, pairVars >>

\* the debug callback touches nothing of the other components
MessageOnly == UNCHANGED << reshapeVars, asbuildVars, checkVars, loopVars, drawVars, dbVars, submitVars, batchVars, handleVars, pairVars, setupVars, compactVars, recordVars >>

\* the main loop touches nothing of the other components
LoopOnly == UNCHANGED << reshapeVars, asbuildVars, checkVars, drawVars, dbVars, submitVars, batchVars, handleVars, pairVars, setupVars, compactVars, recordVars, messageVars >>

\* a checked call touches nothing of the other components
CheckOnly == UNCHANGED << reshapeVars, asbuildVars, drawVars, dbVars, submitVars, batchVars, handleVars, pairVars, setupVars, compactVars, recordVars, messageVars, loopVars >>

\* the acceleration structure build touches nothing of the other components
AsbuildOnly == UNCHANGED << reshapeVars, drawVars, dbVars, submitVars, batchVars, handleVars, pairVars, setupVars, compactVars, recordVars, messageVars, loopVars, checkVars >>

\* frame of the reshape component
ReshapeOnly == UNCHANGED << drawVars, dbVars, submitVars, batchVars, handleVars, pairVars, setupVars, compactVars, recordVars, messageVars, loopVars, checkVars, asbuildVars >>

(***************************************************************************)
(* Command submission: CommandBufferManager::submit                        *)
(***************************************************************************)

\* number of submissions the queue holds unfinished
MaxQueued == 3

\* VK_NULL_HANDLE, the default of the fence parameter
NullFence == "VK_NULL_HANDLE"

\* the fences a caller may supply
Fences == { "fenceA", "fenceB" }

\* a submit that resets the fence after the queue submission
submitResetsAfter(fence, resetOk, submitOk) ==
    LET submission == << [ call |-> "vkQueueSubmit2", fence |-> fence ] >>
        reset == << [ call |-> "vkResetFences", fence |-> fence ] >>
    IN IF ~ submitOk
       THEN [ calls |-> submission, threw |-> TRUE, submitted |-> FALSE, reset |-> FALSE ]
       ELSE IF fence = NullFence
       THEN [ calls |-> submission, threw |-> FALSE, submitted |-> TRUE, reset |-> FALSE ]
       ELSE [ calls |-> submission \o reset, threw |-> ~ resetOk, submitted |-> TRUE, reset |-> resetOk ]

\* a submit that tries the queue submission a second time when it fails
submitRetries(fence, resetOk, submitOk) ==
    LET reset == IF fence # NullFence
                 THEN << [ call |-> "vkResetFences", fence |-> fence ] >>
                 ELSE << >>
        submission == << [ call |-> "vkQueueSubmit2", fence |-> fence ] >>
    IN IF fence # NullFence /\ ~ resetOk
       THEN [ calls |-> reset, threw |-> TRUE, submitted |-> FALSE, reset |-> FALSE ]
       ELSE IF submitOk
       THEN [ calls |-> reset \o submission, threw |-> FALSE, submitted |-> TRUE,
              reset |-> fence # NullFence ]
       ELSE [ calls |-> reset \o submission \o submission, threw |-> TRUE, submitted |-> FALSE,
              reset |-> fence # NullFence ]

\* _Internal::submit, line 71-75: the API calls it makes, in order, and how it ends, given
\* the fence and the results of vkResetFences and vkQueueSubmit2
submit(fence, resetOk, submitOk) ==
    LET reset == IF fence # NullFence
                 THEN << [ call |-> "vkResetFences", fence |-> fence ] >>
                 ELSE << >>
        submission == << [ call |-> "vkQueueSubmit2", fence |-> fence ] >>
    IN IF fence # NullFence /\ ~ resetOk
       THEN [ calls |-> reset, threw |-> TRUE, submitted |-> FALSE, reset |-> FALSE ]
       ELSE [ calls |-> reset \o submission, threw |-> ~ submitOk, submitted |-> submitOk,
              reset |-> fence # NullFence ]

NoSubmitCall == [ valid |-> FALSE, fence |-> NullFence, calls |-> << >>, threw |-> FALSE ]

SubmitInit ==
    /\ fenceSignaled = [ f \in Fences |-> FALSE ]
    /\ queue = << >>
    /\ lastSubmitCall = NoSubmitCall

\* CommandBufferManager::submit with the given fence; a supplied fence is not
\* one that an unfinished submission still uses
Submit(fence, resetOk, submitOk) ==
    /\ Len(queue) < MaxQueued
    /\ fence \notin (SeqToSet(queue) \ { NullFence })
    /\ LET r == submit(fence, resetOk, submitOk)
       IN /\ fenceSignaled' = IF r.reset THEN [ fenceSignaled EXCEPT ![fence] = FALSE ] ELSE fenceSignaled
          /\ queue' = IF r.submitted THEN Append(queue, fence) ELSE queue
          /\ lastSubmitCall' = [ valid |-> TRUE, fence |-> fence, calls |-> r.calls, threw |-> r.threw ]
    /\ SubmitOnly

\* the queue finishes its oldest submission and signals the fence given with it
QueueFinish ==
    /\ Len(queue) > 0
    /\ fenceSignaled' = IF Head(queue) # NullFence
                        THEN [ fenceSignaled EXCEPT ![Head(queue)] = TRUE ]
                        ELSE fenceSignaled
    /\ queue' = Tail(queue)
    /\ UNCHANGED lastSubmitCall
    /\ SubmitOnly

SubmitNext ==
    \/ \E fence \in Fences \cup { NullFence }, resetOk \in BOOLEAN, submitOk \in BOOLEAN :
        Submit(fence, resetOk, submitOk)
    \/ QueueFinish

(***************************************************************************)
(* Frame-in-flight pacer: MasterEngine::draw                               *)
(***************************************************************************)

\* values whose signal has been submitted on slot k and that the GPU has not reached yet
Pending(k) == { v \in SeqToSet(signalLog[k]) : v > timeline[k] }

\* a pacer that waits for the value of the frame before the previous one
WaitTargetStale(counter) == IF counter > 0 THEN counter - 1 ELSE 0

\* `frame_counter++` passed as the wait value: the wait receives the old value
WaitTarget(counter) == counter

\* a counter that is read but never advanced
PostIncrementMissing(counter) == counter

\* `frame_counter++`: the stored counter after the call expression is evaluated
PostIncrement(counter) == counter + 1

\* a host wait that returns without blocking
WaitSatisfiedNoBlock(k, value) == TRUE

\* vkWaitSemaphores with an unlimited timeout: returns VK_SUCCESS once the semaphore reached the value
WaitSatisfied(k, value) == timeline[k] >= value

\* { wait_frame, VK_PIPELINE_STAGE_2_ALL_COMMANDS_BIT, frame_counter }: the value the submission signals
SignalValue(counter) == counter

NoReset == [ valid |-> FALSE, slot |-> 0, observed |-> 0, lastSignalled |-> 0, pending |-> FALSE ]

NoSubmit == [ valid |-> FALSE, slot |-> 0, waited |-> 0, signalled |-> 0 ]

NoDrawTrace == [ submitCalls |-> << >>, submitThrew |-> FALSE, presentCalls |-> 0 ]

\* the results of vkAcquireNextImageKHR: the semaphore is signalled for the two success codes
AcquireResults == { "VK_SUCCESS", "VK_SUBOPTIMAL_KHR", "VK_ERROR_OUT_OF_DATE_KHR" }

\* the results of vkQueuePresentKHR
PresentResults == { "VK_SUCCESS", "VK_SUBOPTIMAL_KHR", "VK_ERROR_OUT_OF_DATE_KHR",
                    "VK_ERROR_OUT_OF_HOST_MEMORY" }

\* vkAcquireNextImageKHR: an image was acquired and the semaphore will be signalled
AcquireSignals(result) == result \in { "VK_SUCCESS", "VK_SUBOPTIMAL_KHR" }

\* vkQueuePresentKHR: the wait on the semaphore was enqueued; a failure to enqueue
\* leaves the semaphore as it was
PresentEnqueued(result) == result # "VK_ERROR_OUT_OF_HOST_MEMORY"

\* checkVulkanError: any code other than VK_SUCCESS is thrown
ThrowsOn(result) == result # "VK_SUCCESS"

\* an allocation that takes every in-flight command buffer from the first pool
allocateCommandBufferOnePool(type) ==
    IF type = "InFlight" THEN [ i \in Slots |-> 0 ] ELSE "Reshape"

\* CommandBufferManager::allocateCommandBuffer, the pool of each buffer it returns: for
\* InFlight one buffer per in-flight pool, element i from InFlightCommandPool[i]
allocateCommandBuffer(type) ==
    IF type = "InFlight" THEN [ i \in Slots |-> i ] ELSE "Reshape"

\* SimpleTerrain::draw and SimpleWater::draw: TerrainDrawCmd[frame_index], and with a water
\* renderer WaterCommand[frame_idx], each begun once
RendererBegins(frame_index, draw_water) ==
    { [ name |-> "TerrainDrawCmd", pool |-> allocateCommandBuffer("InFlight")[frame_index] ] }
        \cup IF draw_water
             THEN { [ name |-> "WaterCommand", pool |-> allocateCommandBuffer("InFlight")[frame_index] ] }
             ELSE { }

\* a camera update that writes the copy of the other slot
CameraUpdateOtherCopy(index, dirty, flushOk) ==
    [ written |-> dirty, index |-> (index + 1) % MaxFrameInFlight, threw |-> dirty /\ ~ flushOk ]

\* Camera::update(index): the dirty fields are written to ShaderBuffer[index] and flushed;
\* nothing is written when nothing is dirty, and a failed flush throws
CameraUpdate(index, dirty, flushOk) ==
    [ written |-> dirty, index |-> index, threw |-> dirty /\ ~ flushOk ]

NoBegin == [ valid |-> FALSE, slot |-> 0, draw |-> 0, buffers |-> { }, fresh |-> TRUE,
             resetDraw |-> 0 ]

NoCameraWrite == [ valid |-> FALSE, index |-> 0, slot |-> 0, pending |-> FALSE,
                   observed |-> 0, lastSignalled |-> 0 ]

DrawInit ==
    /\ poolEpoch = [ k \in Slots |-> [ resetDraw |-> 0, begun |-> { } ] ]
    /\ lastBegin = NoBegin
    /\ lastCameraWrite = NoCameraWrite
    /\ FrameInFlightIndex = 0
    /\ FrameCounter = [ k \in Slots |-> InitialTimelineValue ]
    /\ timeline = [ k \in Slots |-> InitialTimelineValue ]
    /\ signalLog = [ k \in Slots |-> << >> ]
    /\ drawPc = "idle"
    /\ waitValue = 0
    /\ observed = [ k \in Slots |-> 0 ]
    /\ lastReset = NoReset
    /\ lastSubmit = NoSubmit
    /\ drawResult = "none"
    /\ drawCalls = 0
    /\ binPending = [ k \in Slots |-> [ ImageAvailable |-> 0, RenderFinish |-> 0 ] ]
    /\ presentWaits = [ k \in Slots |-> 0 ]
    /\ hostWaited = {}
    /\ drawTrace = NoDrawTrace

\* an exception leaves draw: FrameInFlightIndex is not advanced
DrawThrow ==
    /\ drawPc' = "idle"
    /\ drawResult' = "threw"

\* line 577-582: pick the slot's primitives, evaluate frame_counter++ and enter the host wait
DrawBegin ==
    /\ drawPc = "idle"
    /\ drawCalls < MaxDraws
    /\ drawCalls' = drawCalls + 1
    /\ waitValue' = WaitTarget(FrameCounter[FrameInFlightIndex])
    /\ FrameCounter' = [ FrameCounter EXCEPT ![FrameInFlightIndex] = PostIncrement(@) ]
    /\ drawPc' = "wait"
    /\ drawResult' = "running"
    /\ hostWaited' = hostWaited \cup { "WaitFrame" }
    /\ drawTrace' = NoDrawTrace
    /\ UNCHANGED << FrameInFlightIndex, timeline, signalLog, observed, lastReset, lastSubmit,
                    binPending, presentWaits >>
    /\ UNCHANGED << poolEpoch, lastBegin, lastCameraWrite >>
    /\ DrawOnly

\* line 582: vkWaitSemaphores returns VK_SUCCESS once the semaphore has reached the value
DrawWaitReturn ==
    /\ drawPc = "wait"
    /\ WaitSatisfied(FrameInFlightIndex, waitValue)
    /\ observed' = [ observed EXCEPT ![FrameInFlightIndex] = IF waitValue > @ THEN waitValue ELSE @ ]
    /\ drawPc' = "reset"
    /\ UNCHANGED << FrameInFlightIndex, FrameCounter, timeline, signalLog, waitValue,
                    lastReset, lastSubmit, drawResult, drawCalls,
                    binPending, presentWaits, hostWaited, drawTrace >>
    /\ UNCHANGED << poolEpoch, lastBegin, lastCameraWrite >>
    /\ DrawOnly

\* line 582: vkWaitSemaphores returns an error (device lost), CHECK_VULKAN_ERROR throws
DrawWaitFail ==
    /\ drawPc = "wait"
    /\ DrawThrow
    /\ UNCHANGED << FrameInFlightIndex, FrameCounter, timeline, signalLog, waitValue,
                    observed, lastReset, lastSubmit, drawCalls,
                    binPending, presentWaits, hostWaited, drawTrace >>
    /\ UNCHANGED << poolEpoch, lastBegin, lastCameraWrite >>
    /\ DrawOnly

\* line 584-585: vkResetCommandPool on the slot's in-flight pool
DrawResetPool ==
    /\ drawPc = "reset"
    /\ \E ok \in BOOLEAN :
        IF ok
        THEN /\ lastReset' = [ valid |-> TRUE,
                               slot |-> FrameInFlightIndex,
                               observed |-> observed[FrameInFlightIndex],
                               lastSignalled |-> MaxOf(SeqToSet(signalLog[FrameInFlightIndex]), InitialTimelineValue),
                               pending |-> Pending(FrameInFlightIndex) # {} ]
             /\ poolEpoch' = [ poolEpoch EXCEPT ![FrameInFlightIndex] =
                                [ resetDraw |-> drawCalls, begun |-> { } ] ]
             /\ drawPc' = "acquire"
             /\ UNCHANGED drawResult
        ELSE /\ DrawThrow
             /\ UNCHANGED << lastReset, poolEpoch >>
    /\ UNCHANGED << FrameInFlightIndex, FrameCounter, timeline, signalLog, waitValue,
                    observed, lastSubmit, drawCalls,
                    binPending, presentWaits, hostWaited, drawTrace >>
    /\ UNCHANGED << lastBegin, lastCameraWrite >>
    /\ DrawOnly

\* line 587-592: SceneCamera->update(FrameInFlightIndex), then vkAcquireNextImageKHR
DrawAcquire ==
    /\ drawPc = "acquire"
    /\ \E dirty \in BOOLEAN, flushOk \in BOOLEAN, result \in AcquireResults :
        LET cam == CameraUpdate(FrameInFlightIndex, dirty, flushOk)
        IN /\ lastCameraWrite' =
                IF cam.written
                THEN [ valid |-> TRUE, index |-> cam.index, slot |-> FrameInFlightIndex,
                       pending |-> Pending(cam.index) # {},
                       observed |-> observed[cam.index],
                       lastSignalled |-> MaxOf(SeqToSet(signalLog[cam.index]), InitialTimelineValue) ]
                ELSE lastCameraWrite
           /\ IF cam.threw
              THEN /\ DrawThrow
                   /\ UNCHANGED binPending
              ELSE /\ binPending' = IF AcquireSignals(result)
                                    THEN [ binPending EXCEPT ![FrameInFlightIndex].ImageAvailable = @ + 1 ]
                                    ELSE binPending
                   /\ IF ThrowsOn(result)
                      THEN DrawThrow
                      ELSE /\ drawPc' = "render"
                           /\ UNCHANGED drawResult
    /\ UNCHANGED << FrameInFlightIndex, FrameCounter, timeline, signalLog, waitValue,
                    observed, lastReset, lastSubmit, drawCalls,
                    presentWaits, hostWaited, drawTrace >>
    /\ UNCHANGED << poolEpoch, lastBegin >>
    /\ DrawOnly

\* line 619: AttachedRenderer->draw begins the slot's command buffers and records the
\* frame's commands
DrawRender ==
    /\ drawPc = "render"
    /\ \E ok \in BOOLEAN, draw_water \in BOOLEAN :
        LET buffers == RendererBegins(FrameInFlightIndex, draw_water)
        IN /\ lastBegin' = [ valid |-> TRUE, slot |-> FrameInFlightIndex, draw |-> drawCalls,
                             buffers |-> buffers,
                             fresh |-> \A b \in buffers : b.name \notin poolEpoch[b.pool].begun,
                             resetDraw |-> poolEpoch[FrameInFlightIndex].resetDraw ]
           /\ poolEpoch' = [ k \in Slots |->
                               [ poolEpoch[k] EXCEPT !.begun =
                                   @ \cup { b.name : b \in { c \in buffers : c.pool = k } } ] ]
           /\ IF ok
              THEN /\ drawPc' = "submit"
                   /\ UNCHANGED drawResult
              ELSE DrawThrow
    /\ UNCHANGED << FrameInFlightIndex, FrameCounter, timeline, signalLog, waitValue,
                    observed, lastReset, lastSubmit, drawCalls,
                    binPending, presentWaits, hostWaited, drawTrace >>
    /\ UNCHANGED lastCameraWrite
    /\ DrawOnly

\* line 638-645: CommandBufferManager::submit with no fence, signalling wait_frame to frame_counter
DrawSubmit ==
    /\ drawPc = "submit"
    /\ \E ok \in BOOLEAN :
        /\ drawTrace' = [ drawTrace EXCEPT !.submitCalls = @ \o submit(NullFence, TRUE, ok).calls,
                                           !.submitThrew = submit(NullFence, TRUE, ok).threw ]
        /\ IF submit(NullFence, TRUE, ok).submitted
           THEN /\ signalLog' = [ signalLog EXCEPT ![FrameInFlightIndex] =
                                  Append(@, SignalValue(FrameCounter[FrameInFlightIndex])) ]
             /\ lastSubmit' = [ valid |-> TRUE,
                                slot |-> FrameInFlightIndex,
                                waited |-> waitValue,
                                signalled |-> SignalValue(FrameCounter[FrameInFlightIndex]) ]
             /\ drawPc' = "present"
             /\ UNCHANGED drawResult
           ELSE /\ DrawThrow
                /\ UNCHANGED << signalLog, lastSubmit >>
    /\ UNCHANGED << FrameInFlightIndex, FrameCounter, timeline, waitValue,
                    observed, lastReset, drawCalls,
                    binPending, presentWaits, hostWaited >>
    /\ UNCHANGED << poolEpoch, lastBegin, lastCameraWrite >>
    /\ DrawOnly

\* line 647-650: vkQueuePresentKHR, then advance the in-flight index
DrawPresent ==
    /\ drawPc = "present"
    /\ \E result \in PresentResults :
        /\ presentWaits' = IF PresentEnqueued(result)
                           THEN [ presentWaits EXCEPT ![FrameInFlightIndex] = @ + 1 ]
                           ELSE presentWaits
        /\ IF ThrowsOn(result)
           THEN /\ DrawThrow
                /\ UNCHANGED FrameInFlightIndex
           ELSE /\ FrameInFlightIndex' = (FrameInFlightIndex + 1) % MaxFrameInFlight
                /\ drawPc' = "idle"
                /\ drawResult' = "returned"
    /\ drawTrace' = [ drawTrace EXCEPT !.presentCalls = @ + 1 ]
    /\ UNCHANGED << FrameCounter, timeline, signalLog, waitValue,
                    observed, lastReset, lastSubmit, drawCalls,
                    binPending, hostWaited >>
    /\ UNCHANGED << poolEpoch, lastBegin, lastCameraWrite >>
    /\ DrawOnly

\* the device executes the oldest unfinished submission of slot k: it waits on
\* ImageAvailable, then signals RenderFinish and the timeline value
GpuFinish(k) ==
    /\ Pending(k) # {}
    /\ binPending[k].ImageAvailable > 0
    /\ timeline' = [ timeline EXCEPT ![k] = MinOf(Pending(k)) ]
    /\ binPending' = [ binPending EXCEPT ![k].ImageAvailable = @ - 1, ![k].RenderFinish = @ + 1 ]
    /\ UNCHANGED << FrameInFlightIndex, FrameCounter, signalLog, drawPc, waitValue,
                    observed, lastReset, lastSubmit, drawResult, drawCalls,
                    presentWaits, hostWaited, drawTrace >>
    /\ UNCHANGED << poolEpoch, lastBegin, lastCameraWrite >>
    /\ DrawOnly

\* the wait on RenderFinish that a present of slot k enqueued is executed
PresentWait(k) ==
    /\ presentWaits[k] > 0
    /\ binPending[k].RenderFinish > 0
    /\ presentWaits' = [ presentWaits EXCEPT ![k] = @ - 1 ]
    /\ binPending' = [ binPending EXCEPT ![k].RenderFinish = @ - 1 ]
    /\ UNCHANGED << FrameInFlightIndex, FrameCounter, timeline, signalLog, drawPc, waitValue,
                    observed, lastReset, lastSubmit, drawResult, drawCalls,
                    hostWaited, drawTrace >>
    /\ UNCHANGED << poolEpoch, lastBegin, lastCameraWrite >>
    /\ DrawOnly

DrawNext ==
    \/ DrawBegin
    \/ DrawWaitReturn
    \/ DrawWaitFail
    \/ DrawResetPool
    \/ DrawAcquire
    \/ DrawRender
    \/ DrawSubmit
    \/ DrawPresent
    \/ \E k \in Slots : GpuFinish(k)
    \/ \E k \in Slots : PresentWait(k)

(***************************************************************************)
(* Descriptor buffer manager: DescriptorBufferManager and its              *)
(* DescriptorUpdater                                                       *)
(***************************************************************************)

\* number of update calls recorded in the flush list at one time
MaxUpdates == 2

\* the DescriptorUpdater objects a caller may hold at the same time
UpdaterIds == { 1, 2 }

\* VkPhysicalDeviceDescriptorBufferPropertiesEXT: the descriptor size of each type getDataSize supports
DescriptorSize ==
    [ SAMPLER |-> 1,
      COMBINED_IMAGE_SAMPLER |-> 3,
      UNIFORM_BUFFER |-> 2,
      STORAGE_BUFFER |-> 2,
      ACCELERATION_STRUCTURE_KHR |-> 4 ]

\* getDataSize: the switch has a case for the type; any other type reaches `default: throw`
SupportedType(type) == type \in DOMAIN DescriptorSize

getDataSize(type) == DescriptorSize[type]

\* a type getDataSize has no case for
UnsupportedType == "INPUT_ATTACHMENT"

\* descriptor set layouts: a sequence of bindings, each an array of `count` descriptors of one type
TerrainLikeLayout ==
    << [ type |-> "UNIFORM_BUFFER", count |-> 1 ], [ type |-> "SAMPLER", count |-> 3 ] >>

CameraLikeLayout == << [ type |-> "STORAGE_BUFFER", count |-> 1 ] >>

AccelLikeLayout == << [ type |-> "ACCELERATION_STRUCTURE_KHR", count |-> 1 ] >>

\* a descriptor set layout created with no binding
EmptyLayout == << >>

\* the layout lists a manager is constructed with
LayoutChoices ==
    { << CameraLikeLayout >>,
      << TerrainLikeLayout, CameraLikeLayout >>,
      << AccelLikeLayout, TerrainLikeLayout >>,
      << CameraLikeLayout, EmptyLayout, TerrainLikeLayout >> }

\* descriptorBufferOffsetAlignment values of the device
AlignmentChoices == { 1, 2, 4 }

RECURSIVE SumSeq(_)
SumSeq(s) == IF Len(s) = 0 THEN 0 ELSE s[1] + SumSeq(Tail(s))

\* vkGetDescriptorSetLayoutSizeEXT: bindings are packed one after the other
LayoutSize(layout) ==
    SumSeq([ b \in 1 .. Len(layout) |-> layout[b].count * DescriptorSize[layout[b].type] ])

\* vkGetDescriptorSetLayoutBindingOffsetEXT for the 0-based binding index
LayoutBindingOffset(layout, binding) ==
    SumSeq([ b \in 1 .. binding |-> layout[b].count * DescriptorSize[layout[b].type] ])

RECURSIVE BitAnd(_, _)
BitAnd(a, b) ==
    IF a = 0 \/ b = 0 THEN 0
    ELSE (a % 2) * (b % 2) + 2 * BitAnd(a \div 2, b \div 2)

\* a rounding that clears the low bits without adding mul - 1 first
roundDown(num, mul) == num - BitAnd(num, mul - 1)

\* (num + mul - 1u) & ~(mul - 1u), using x & ~y = x - (x & y)
roundUp(num, mul) == (num + mul - 1) - BitAnd(num + mul - 1, mul - 1)

\* a rounding loop that does not leave the last set out
RoundedSizesAll(sizes, alignment) ==
    [ i \in 1 .. Len(sizes) |-> roundUp(sizes[i], alignment) ]

\* line 122-131: the size of every set except the last is rounded up to the alignment
RoundedSizes(sizes, alignment) ==
    [ i \in 1 .. Len(sizes) |-> IF i < Len(sizes) THEN roundUp(sizes[i], alignment) ELSE sizes[i] ]

\* a scan that includes the element itself
InclusiveScan(s) == [ i \in 1 .. Len(s) |-> SumSeq(SubSeq(s, 1, i)) ]

\* std::exclusive_scan with initial value 0
ExclusiveScan(s) == [ i \in 1 .. Len(s) |-> SumSeq(SubSeq(s, 1, i - 1)) ]

\* a clearFlush that leaves the recorded ranges in place
clearFlushKeeps(flush) == flush

\* DescriptorBufferManager::clearFlush
clearFlush(flush) == << >>

\* a constructor that clears the flush list before it looks at UpdaterAlive
DescriptorUpdaterCtorLateCheck(alive, flush, mapOk) ==
    IF alive
    THEN [ result |-> "threw_alive", alive |-> alive, flush |-> clearFlush(flush),
           mapped |-> FALSE, flusher |-> FALSE, steps |-> << "clearFlush", "check" >> ]
    ELSE IF ~ mapOk
    THEN [ result |-> "threw_map", alive |-> TRUE, flush |-> clearFlush(flush),
           mapped |-> FALSE, flusher |-> FALSE, steps |-> << "clearFlush", "check", "setAlive", "map" >> ]
    ELSE [ result |-> "ok", alive |-> TRUE, flush |-> clearFlush(flush),
           mapped |-> TRUE, flusher |-> TRUE, steps |-> << "clearFlush", "check", "setAlive", "map", "setFlusher" >> ]

\* a constructor that does not look at UpdaterAlive at all
DescriptorUpdaterCtorNoCheck(alive, flush, mapOk) ==
    IF ~ mapOk
    THEN [ result |-> "threw_map", alive |-> TRUE, flush |-> clearFlush(flush),
           mapped |-> FALSE, flusher |-> FALSE, steps |-> << "clearFlush", "setAlive", "map" >> ]
    ELSE [ result |-> "ok", alive |-> TRUE, flush |-> clearFlush(flush),
           mapped |-> TRUE, flusher |-> TRUE, steps |-> << "clearFlush", "setAlive", "map", "setFlusher" >> ]

\* DescriptorUpdater::DescriptorUpdater: what the constructor does to the manager, given
\* UpdaterAlive, the flush list and whether vmaMapMemory succeeds.  Mapped and Flusher
\* start empty, so a constructor that throws leaves nothing for the members' destructors to do.
DescriptorUpdaterCtor(alive, flush, mapOk) ==
    IF alive
    THEN [ result |-> "threw_alive", alive |-> alive, flush |-> flush,
           mapped |-> FALSE, flusher |-> FALSE, steps |-> << "check" >> ]
    ELSE IF ~ mapOk
    THEN [ result |-> "threw_map", alive |-> TRUE, flush |-> clearFlush(flush),
           mapped |-> FALSE, flusher |-> FALSE, steps |-> << "check", "clearFlush", "setAlive", "map" >> ]
    ELSE [ result |-> "ok", alive |-> TRUE, flush |-> clearFlush(flush),
           mapped |-> TRUE, flusher |-> TRUE, steps |-> << "check", "clearFlush", "setAlive", "map", "setFlusher" >> ]

\* a flusher that leaves the manager marked busy
DescriptorFlusherKeepsBusy(alive, flush, flushOk) ==
    [ calls |-> << flush >>, alive |-> alive, terminated |-> ~ flushOk ]

\* DescriptorFlusher::operator(): one vmaFlushAllocations call with the whole flush list; when it
\* fails CHECK_VULKAN_ERROR throws out of the unique_ptr destructor and the program terminates
DescriptorFlusher(alive, flush, flushOk) ==
    [ calls |-> << flush >>,
      alive |-> IF flushOk THEN FALSE ELSE alive,
      terminated |-> ~ flushOk ]

\* whether one flush call with the ranges `flushed` covers every range of `session`
Covers(flushed, session) ==
    /\ SeqToSet(session) \subseteq SeqToSet(flushed)
    /\ Len(session) <= Len(flushed)

NoCreate == [ valid |-> FALSE, result |-> "none", liveBefore |-> FALSE, aliveBefore |-> FALSE,
              prevOp |-> "none", rangesBefore |-> 0, flushKept |-> TRUE, mapped |-> FALSE,
              mapOk |-> FALSE, steps |-> << >> ]

NoDestroy == [ valid |-> FALSE, flushCalls |-> 0, covers |-> TRUE, sessionLen |-> 0,
               exact |-> TRUE, repeats |-> FALSE,
               aliveAfter |-> FALSE, terminated |-> FALSE ]

NoUpdate == [ result |-> "none", set_idx |-> 0, offset |-> 0, size |-> 0, supported |-> TRUE,
              written |-> FALSE, flushAdded |-> 0 ]

DbInit ==
    /\ dbmConstructed = FALSE
    /\ Offset = << >>
    /\ dbTotalSize = 0
    /\ UpdaterAlive = FALSE
    /\ Flush = << >>
    /\ liveUpdaters = {}
    /\ mapCount = 0
    /\ sessionRanges = << >>
    /\ lastCreate = NoCreate
    /\ lastDestroy = NoDestroy
    /\ lastUpdate = NoUpdate
    /\ dbTerminated = FALSE
    /\ dbLayouts = << >>
    /\ dbAlignment = 1
    /\ dbLastOp = "none"

\* DescriptorBufferManager::DescriptorBufferManager(ctx, ds_layout, usage)
DbConstruct(layouts, alignment) ==
    /\ ~ dbmConstructed
    /\ dbmConstructed' = TRUE
    /\ dbLayouts' = layouts
    /\ dbAlignment' = alignment
    /\ dbLastOp' = "construct"
    /\ LET sizes == [ i \in 1 .. Len(layouts) |-> LayoutSize(layouts[i]) ]
           rounded == RoundedSizes(sizes, alignment)
       IN /\ dbTotalSize' = SumSeq(rounded)
          /\ Offset' = ExclusiveScan(rounded)
    /\ UpdaterAlive' = FALSE
    /\ UNCHANGED << Flush, liveUpdaters, mapCount, sessionRanges,
                    lastCreate, lastDestroy, lastUpdate, dbTerminated >>
    /\ DbOnly

\* DescriptorBufferManager::createUpdater, producing the updater object u
CreateUpdater(u, mapOk) ==
    /\ dbmConstructed
    /\ ~ dbTerminated
    /\ u \notin liveUpdaters
    /\ dbLastOp' = "create"
    /\ LET r == DescriptorUpdaterCtor(UpdaterAlive, Flush, mapOk)
       IN /\ UpdaterAlive' = r.alive
          /\ Flush' = r.flush
          /\ mapCount' = IF r.mapped THEN mapCount + 1 ELSE mapCount
          /\ liveUpdaters' = IF r.result = "ok" THEN liveUpdaters \cup { u } ELSE liveUpdaters
          /\ sessionRanges' = IF r.result = "ok" THEN << >> ELSE sessionRanges
          /\ lastCreate' = [ valid |-> TRUE, result |-> r.result, liveBefore |-> liveUpdaters # {},
                             aliveBefore |-> UpdaterAlive, prevOp |-> dbLastOp,
                             rangesBefore |-> Len(Flush), flushKept |-> r.flush = Flush,
                             mapped |-> r.mapped, mapOk |-> mapOk, steps |-> r.steps ]
    /\ UNCHANGED << dbmConstructed, dbLayouts, dbAlignment, Offset, dbTotalSize,
                    lastDestroy, lastUpdate, dbTerminated >>
    /\ DbOnly

\* whether a call is among the steps taken
Calls(steps, call) == \E i \in 1 .. Len(steps) : steps[i] = call

\* an update that looks the descriptor size up after the descriptor is written and recorded
updateChecksLate(type) ==
    IF SupportedType(type)
    THEN << "getDataSize", "vkGetDescriptorSetLayoutBindingOffsetEXT", "vkGetDescriptorEXT",
            "push_back" >>
    ELSE << "vkGetDescriptorSetLayoutBindingOffsetEXT", "vkGetDescriptorEXT", "push_back",
            "getDataSize", "throw" >>

\* DescriptorUpdater::update, the calls it makes in order: getDataSize (which throws in
\* its default case), the binding offset query, the descriptor write, the flush record
update(type) ==
    IF SupportedType(type)
    THEN << "getDataSize", "vkGetDescriptorSetLayoutBindingOffsetEXT", "vkGetDescriptorEXT",
            "push_back" >>
    ELSE << "getDataSize", "throw" >>

\* an offset that counts the array layers from one
updateOffsetNextLayer(set_offset, binding_offset, layer, data_size) ==
    set_offset + binding_offset + (layer + 1) * data_size

\* update_offset = set_offset + binding_offset + layer_offset, with layer_offset = layer * data_size
updateOffset(set_offset, binding_offset, layer, data_size) ==
    set_offset + binding_offset + layer * data_size

\* DescriptorUpdater::update on the live updater u
Update(u, set_idx, binding, layer, type) ==
    /\ u \in liveUpdaters
    /\ dbLastOp' = "update"
    /\ ~ dbTerminated
    /\ Len(Flush) < MaxUpdates
    /\ LET steps == update(type)
           threw == Calls(steps, "throw")
           set_offset == Offset[set_idx + 1]
           data_size == IF SupportedType(type) THEN getDataSize(type) ELSE 0
           binding_offset == LayoutBindingOffset(dbLayouts[set_idx + 1], binding)
           update_offset == updateOffset(set_offset, binding_offset, layer, data_size)
           range == [ allocation |-> "DescriptorBuffer", offset |-> update_offset, size |-> data_size ]
       IN /\ Flush' = IF Calls(steps, "push_back") THEN Append(Flush, range) ELSE Flush
          /\ sessionRanges' = IF Calls(steps, "push_back")
                              THEN Append(sessionRanges, range) ELSE sessionRanges
          /\ lastUpdate' = [ result |-> IF threw THEN "threw" ELSE "ok",
                             set_idx |-> IF threw THEN 0 ELSE set_idx,
                             offset |-> IF threw THEN 0 ELSE update_offset,
                             size |-> IF threw THEN 0 ELSE data_size,
                             supported |-> SupportedType(type),
                             written |-> Calls(steps, "vkGetDescriptorEXT"),
                             flushAdded |-> IF Calls(steps, "push_back") THEN 1 ELSE 0 ]
    /\ UNCHANGED << dbmConstructed, dbLayouts, dbAlignment, Offset, dbTotalSize, UpdaterAlive, liveUpdaters, mapCount,
                    lastCreate, lastDestroy, dbTerminated >>
    /\ DbOnly

\* ~DescriptorUpdater: Flusher is destroyed first (the flush), then Mapped (the unmap)
DestroyUpdater(u, flushOk) ==
    /\ u \in liveUpdaters
    /\ dbLastOp' = "destroy"
    /\ ~ dbTerminated
    /\ LET r == DescriptorFlusher(UpdaterAlive, Flush, flushOk)
       IN /\ UpdaterAlive' = r.alive
          /\ dbTerminated' = r.terminated
          /\ mapCount' = IF r.terminated THEN mapCount ELSE mapCount - 1
          /\ lastDestroy' = [ valid |-> TRUE, flushCalls |-> Len(r.calls),
                              covers |-> \E i \in 1 .. Len(r.calls) : Covers(r.calls[i], sessionRanges),
                              sessionLen |-> Len(sessionRanges),
                              exact |-> r.calls = << sessionRanges >>,
                              repeats |-> \E i, j \in 1 .. Len(sessionRanges) :
                                              i < j /\ sessionRanges[i] = sessionRanges[j],
                              aliveAfter |-> r.alive, terminated |-> r.terminated ]
    /\ liveUpdaters' = liveUpdaters \ { u }
    /\ UNCHANGED << dbmConstructed, dbLayouts, dbAlignment, Offset, dbTotalSize, Flush, sessionRanges,
                    lastCreate, lastUpdate >>
    /\ DbOnly

DbNext ==
    \/ \E layouts \in LayoutChoices, alignment \in AlignmentChoices : DbConstruct(layouts, alignment)
    \/ \E u \in UpdaterIds, mapOk \in BOOLEAN : CreateUpdater(u, mapOk)
    \/ \E u \in UpdaterIds, set_idx \in 0 .. (Len(Offset) - 1) :
        \E binding \in 0 .. (Len(dbLayouts[set_idx + 1]) - 1) :
            \E layer \in 0 .. (dbLayouts[set_idx + 1][binding + 1].count - 1),
               type \in { dbLayouts[set_idx + 1][binding + 1].type, UnsupportedType } :
                Update(u, set_idx, binding, layer, type)
    \/ \E u \in UpdaterIds, flushOk \in BOOLEAN : DestroyUpdater(u, flushOk)

(***************************************************************************)
(* Pipeline barrier batch: PipelineBarrier<NMemBar, NBufBar, NImgBar>,     *)
(* three FixedArray members                                                *)
(***************************************************************************)

\* the members of PipelineBarrier, in declaration order
Kinds == << "MemoryBarrier", "BufferBarrier", "ImageBarrier" >>

KindSet == SeqToSet(Kinds)

\* the barriers a caller appends
BarrierInfos == { "barrierX", "barrierY" }

\* an element of the std::array that no pushBack has written
Indeterminate == "indeterminate"

\* the template arguments <NMemBar, NBufBar, NImgBar> a batch is declared with
CapacityChoices ==
    { [ MemoryBarrier |-> 0, BufferBarrier |-> 1, ImageBarrier |-> 0 ],
      [ MemoryBarrier |-> 1, BufferBarrier |-> 0, ImageBarrier |-> 2 ],
      [ MemoryBarrier |-> 1, BufferBarrier |-> 1, ImageBarrier |-> 1 ] }

\* what an out-of-bounds `Array[Size++] = object` may do in a build without assert
OverflowOutcomes == { "stray_write", "crash" }

\* FixedArray::FixedArray: Size(0u), the array is left default-initialised
FixedArrayCtor(N) == [ Array |-> [ i \in 1 .. N |-> Indeterminate ], Size |-> 0 ]

\* FixedArray::capacity
capacity(fa) == Len(fa.Array)

\* a pushBack that drops the object when the array is full
pushBackTruncates(fa, object, ndebug, outcome) ==
    IF fa.Size < capacity(fa)
    THEN [ fa |-> [ Array |-> [ fa.Array EXCEPT ![fa.Size + 1] = object ], Size |-> fa.Size + 1 ],
           aborted |-> FALSE, stray |-> 0 ]
    ELSE [ fa |-> fa, aborted |-> FALSE, stray |-> 0 ]

\* a pushBack that stores every object in the first element
pushBackOverwrites(fa, object, ndebug, outcome) ==
    IF fa.Size < capacity(fa)
    THEN [ fa |-> [ Array |-> [ fa.Array EXCEPT ![1] = object ], Size |-> fa.Size + 1 ],
           aborted |-> FALSE, stray |-> 0 ]
    ELSE [ fa |-> fa, aborted |-> TRUE, stray |-> 0 ]

\* FixedArray::pushBack: assert(Size < N); Array[Size++] = object.
\* With the array full the assert aborts the program; without assert (NDEBUG) the
\* store is out of bounds and Size still grows.
pushBack(fa, object, ndebug, outcome) ==
    IF fa.Size < capacity(fa)
    THEN [ fa |-> [ Array |-> [ fa.Array EXCEPT ![fa.Size + 1] = object ], Size |-> fa.Size + 1 ],
           aborted |-> FALSE, stray |-> 0 ]
    ELSE IF ~ ndebug
    THEN [ fa |-> fa, aborted |-> TRUE, stray |-> 0 ]
    ELSE IF outcome = "crash"
    THEN [ fa |-> fa, aborted |-> TRUE, stray |-> 1 ]
    ELSE [ fa |-> [ Array |-> fa.Array, Size |-> fa.Size + 1 ], aborted |-> FALSE, stray |-> 1 ]

\* a clear that leaves the element count as it is
clearKeepsSize(fa) == fa

\* FixedArray::clear
clear(fa) == [ Array |-> fa.Array, Size |-> 0 ]

\* the `Size` elements starting at data() that record hands to vkCmdPipelineBarrier2
Emitted(fa) ==
    [ i \in 1 .. fa.Size |-> IF i <= capacity(fa) THEN fa.Array[i] ELSE "outside_storage" ]

NoAdd == [ valid |-> FALSE, kind |-> "MemoryBarrier", full |-> FALSE, rejected |-> FALSE,
           kept |-> TRUE ]

NoClear == [ valid |-> FALSE, dropped |-> 0 ]

NoRecord == [ valid |-> FALSE, commands |-> 0, afterClear |-> FALSE, dropped |-> 0,
              withinCapacity |-> TRUE, again |-> FALSE, previous |-> << << >>, << >>, << >> >>,
              appended |-> [ MemoryBarrier |-> << >>, BufferBarrier |-> << >>, ImageBarrier |-> << >> ],
              MemoryBarrier |-> << >>, BufferBarrier |-> << >>, ImageBarrier |-> << >> ]

BatchInit ==
    /\ batchBuilt = FALSE
    /\ NDEBUG = FALSE
    /\ batch = [ k \in KindSet |-> FixedArrayCtor(0) ]
    /\ batchAborted = FALSE
    /\ strayWrites = 0
    /\ lastAdd = NoAdd
    /\ lastRecord = NoRecord
    /\ lastClear = NoClear
    /\ appended = [ k \in KindSet |-> << >> ]
    /\ recordedLast = FALSE

\* PipelineBarrier::PipelineBarrier, in a build with or without NDEBUG
BatchCtor(capacities, ndebug) ==
    /\ ~ batchBuilt
    /\ batchBuilt' = TRUE
    /\ NDEBUG' = ndebug
    /\ batch' = [ k \in KindSet |-> FixedArrayCtor(capacities[k]) ]
    /\ UNCHANGED << batchAborted, strayWrites, lastAdd, lastRecord, lastClear, appended,
                   recordedLast >>
    /\ BatchOnly

\* addMemoryBarrier / addBufferBarrier / addImageBarrier: one pushBack on the member of that kind
AddBarrier(kind, info, outcome) ==
    /\ batchBuilt
    /\ ~ batchAborted
    /\ strayWrites = 0
    /\ LET r == pushBack(batch[kind], info, NDEBUG, outcome)
       IN /\ batch' = [ batch EXCEPT ![kind] = r.fa ]
          /\ batchAborted' = r.aborted
          /\ strayWrites' = strayWrites + r.stray
          /\ lastAdd' = [ valid |-> TRUE, kind |-> kind,
                          full |-> batch[kind].Size >= capacity(batch[kind]),
                          rejected |-> r.aborted /\ r.stray = 0,
                          kept |-> Emitted(batch[kind]) = SubSeq(Emitted(r.fa), 1, batch[kind].Size) ]
    /\ lastClear' = NoClear
    /\ appended' = [ appended EXCEPT ![kind] = Append(@, info) ]
    /\ recordedLast' = FALSE
    /\ UNCHANGED << batchBuilt, NDEBUG, lastRecord >>
    /\ BatchOnly

\* the three lists one record hands to vkCmdPipelineBarrier2
RecordedLists(b) ==
    << Emitted(b["MemoryBarrier"]), Emitted(b["BufferBarrier"]), Emitted(b["ImageBarrier"]) >>

\* a record that also empties the three members (record is const and does not)
recordThenClear(b) == [ k \in KindSet |-> clear(b[k]) ]

\* the batch as PipelineBarrier::record leaves it: the method is const, the members are only read
record(b) == b

\* PipelineBarrier::record: one vkCmdPipelineBarrier2 with the three counts and data pointers
RecordBarrier ==
    /\ batchBuilt
    /\ ~ batchAborted
    /\ lastRecord' = [ valid |-> TRUE, commands |-> 1,
                       afterClear |-> lastClear.valid, dropped |-> lastClear.dropped,
                       withinCapacity |-> strayWrites = 0, appended |-> appended,
                       again |-> recordedLast,
                       previous |-> IF recordedLast
                                    THEN << lastRecord.MemoryBarrier, lastRecord.BufferBarrier,
                                            lastRecord.ImageBarrier >>
                                    ELSE << << >>, << >>, << >> >>,
                       MemoryBarrier |-> RecordedLists(batch)[1],
                       BufferBarrier |-> RecordedLists(batch)[2],
                       ImageBarrier |-> RecordedLists(batch)[3] ]
    /\ batch' = record(batch)
    /\ recordedLast' = TRUE
    /\ UNCHANGED << batchBuilt, NDEBUG, batchAborted, strayWrites, lastAdd, lastClear,
                   appended >>
    /\ BatchOnly

\* PipelineBarrier::clear
ClearBarrier ==
    /\ batchBuilt
    /\ ~ batchAborted
    /\ batch' = [ k \in KindSet |-> clear(batch[k]) ]
    /\ lastClear' = [ valid |-> TRUE,
                      dropped |-> batch["MemoryBarrier"].Size + batch["BufferBarrier"].Size
                                  + batch["ImageBarrier"].Size ]
    /\ appended' = [ k \in KindSet |-> << >> ]
    /\ recordedLast' = FALSE
    /\ UNCHANGED << batchBuilt, NDEBUG, batchAborted, strayWrites, lastAdd, lastRecord >>
    /\ BatchOnly

BatchNext ==
    \/ \E capacities \in CapacityChoices, ndebug \in BOOLEAN : BatchCtor(capacities, ndebug)
    \/ \E kind \in KindSet, info \in BarrierInfos, outcome \in OverflowOutcomes :
        AddBarrier(kind, info, outcome)
    \/ RecordBarrier
    \/ ClearBarrier

(***************************************************************************)
(* Owned handles: UniqueHandle<THandle, TDeleter> over std::unique_ptr     *)
(***************************************************************************)

\* the wrapper objects of the program
Wrappers == { 1, 2, 3 }

\* the native objects the wrappers are constructed from
NativeObjects == { "objA", "objB" }

\* the empty state of a unique_ptr
NullHandle == "null"

\* a move that leaves the handle in the source as well
releasedKeeps(handle) == handle

\* unique_ptr::release and the unique_ptr move constructor: what the source holds afterwards
released(handle) == NullHandle

\* ~unique_ptr and unique_ptr::reset: the deleter is called for a non-empty handle only
DeleterCalls(handle) == IF handle = NullHandle THEN << >> ELSE << handle >>

NoWrapper == [ alive |-> FALSE, Handle |-> NullHandle ]

NoWrapperDestroy == [ valid |-> FALSE, wasEmpty |-> FALSE, frees |-> 0 ]

HandleInit ==
    /\ wrapper = [ w \in Wrappers |-> NoWrapper ]
    /\ created = {}
    /\ freeCalls = [ o \in NativeObjects |-> 0 ]
    /\ freedBy = [ o \in NativeObjects |-> 0 ]
    /\ firstOwner = [ o \in NativeObjects |-> 0 ]
    /\ lastOwner = [ o \in NativeObjects |-> 0 ]
    /\ lastWrapperDestroy = NoWrapperDestroy

\* the deleter calls `calls`, made by wrapper w, reach the native free function
NativeFree(calls, w) ==
    /\ freeCalls' = [ o \in NativeObjects |->
                        freeCalls[o] + Cardinality({ i \in 1 .. Len(calls) : calls[i] = o }) ]
    /\ freedBy' = [ o \in NativeObjects |-> IF o \in SeqToSet(calls) THEN w ELSE freedBy[o] ]

Receives(w, handle) ==
    lastOwner' = [ o \in NativeObjects |-> IF o = handle THEN w ELSE lastOwner[o] ]

\* UniqueHandle(handle, deleter): a create* function wraps a new native object
HandleCreate(w, obj) ==
    /\ ~ wrapper[w].alive
    /\ obj \notin created
    /\ created' = created \cup { obj }
    /\ wrapper' = [ wrapper EXCEPT ![w] = [ alive |-> TRUE, Handle |-> obj ] ]
    /\ firstOwner' = [ firstOwner EXCEPT ![obj] = w ]
    /\ Receives(w, obj)
    /\ UNCHANGED << freeCalls, freedBy, lastWrapperDestroy >>
    /\ HandleOnly

\* UniqueHandle(): no managed handle
HandleDefault(w) ==
    /\ ~ wrapper[w].alive
    /\ wrapper' = [ wrapper EXCEPT ![w] = [ alive |-> TRUE, Handle |-> NullHandle ] ]
    /\ UNCHANGED << created, freeCalls, freedBy, firstOwner, lastOwner, lastWrapperDestroy >>
    /\ HandleOnly

\* UniqueHandle(UniqueHandle&&): dst is constructed from src
HandleMoveConstruct(dst, src) ==
    /\ dst # src
    /\ ~ wrapper[dst].alive
    /\ wrapper[src].alive
    /\ wrapper' = [ wrapper EXCEPT ![src] = [ alive |-> TRUE, Handle |-> released(wrapper[src].Handle) ],
                                   ![dst] = [ alive |-> TRUE, Handle |-> wrapper[src].Handle ] ]
    /\ Receives(dst, wrapper[src].Handle)
    /\ UNCHANGED << created, freeCalls, freedBy, firstOwner, lastWrapperDestroy >>
    /\ HandleOnly

\* operator=(UniqueHandle&&): reset(src.release()); dst and src may be the same object
HandleMoveAssign(dst, src) ==
    /\ wrapper[dst].alive
    /\ wrapper[src].alive
    /\ LET taken == wrapper[src].Handle
           afterRelease == [ wrapper EXCEPT ![src] = [ alive |-> TRUE, Handle |-> released(taken) ] ]
           old == afterRelease[dst].Handle
       IN /\ wrapper' = [ afterRelease EXCEPT ![dst] = [ alive |-> TRUE, Handle |-> taken ] ]
          /\ NativeFree(DeleterCalls(old), dst)
          /\ Receives(dst, taken)
    /\ UNCHANGED << created, firstOwner, lastWrapperDestroy >>
    /\ HandleOnly

\* handle->reset(), through operator->
HandleReset(w) ==
    /\ wrapper[w].alive
    /\ wrapper' = [ wrapper EXCEPT ![w] = [ alive |-> TRUE, Handle |-> NullHandle ] ]
    /\ NativeFree(DeleterCalls(wrapper[w].Handle), w)
    /\ UNCHANGED << created, firstOwner, lastOwner, lastWrapperDestroy >>
    /\ HandleOnly

\* ~UniqueHandle
HandleDestroy(w) ==
    /\ wrapper[w].alive
    /\ wrapper' = [ wrapper EXCEPT ![w] = NoWrapper ]
    /\ NativeFree(DeleterCalls(wrapper[w].Handle), w)
    /\ lastWrapperDestroy' = [ valid |-> TRUE, wasEmpty |-> wrapper[w].Handle = NullHandle,
                               frees |-> Len(DeleterCalls(wrapper[w].Handle)) ]
    /\ UNCHANGED << created, firstOwner, lastOwner >>
    /\ HandleOnly

HandleNext ==
    \/ \E w \in Wrappers, obj \in NativeObjects : HandleCreate(w, obj)
    \/ \E w \in Wrappers : HandleDefault(w)
    \/ \E dst \in Wrappers, src \in Wrappers : HandleMoveConstruct(dst, src)
    \/ \E dst \in Wrappers, src \in Wrappers : HandleMoveAssign(dst, src)
    \/ \E w \in Wrappers : HandleReset(w)
    \/ \E w \in Wrappers : HandleDestroy(w)

(***************************************************************************)
(* Paired resources: BufferAllocation = std::pair<Allocation, Buffer>      *)
(***************************************************************************)

\* the std::pair objects of the program
PairIds == { 1, 2 }

\* the buffers vmaCreateBuffer creates, each with the allocation bound to it
PairResources == { "bufA", "bufB", "bufC" }

NoPair == [ alive |-> FALSE, first |-> NullHandle, second |-> NullHandle ]

NoRelease == [ valid |-> FALSE, op |-> "none", calls |-> << >> ]

\* AllocationFreer: the deleter calls of .first reach vmaFreeMemory
FreeMemoryCalls(handle) ==
    [ i \in 1 .. Len(DeleterCalls(handle)) |-> [ call |-> "vmaFreeMemory", resource |-> handle ] ]

\* BufferDestroyer: the deleter calls of .second reach vkDestroyBuffer
DestroyBufferCalls(handle) ==
    [ i \in 1 .. Len(DeleterCalls(handle)) |-> [ call |-> "vkDestroyBuffer", resource |-> handle ] ]

PairInit ==
    /\ pairs = [ p \in PairIds |-> NoPair ]
    /\ pairCreated = {}
    /\ lastRelease = NoRelease

\* createBufferFromAllocator: make_pair(Allocation(allocation), Buffer(buffer))
PairCreate(p, res) ==
    /\ ~ pairs[p].alive
    /\ res \notin pairCreated
    /\ pairCreated' = pairCreated \cup { res }
    /\ pairs' = [ pairs EXCEPT ![p] = [ alive |-> TRUE, first |-> res, second |-> res ] ]
    /\ UNCHANGED lastRelease
    /\ PairOnly

\* pair(pair&&): both members are move-constructed
PairMoveConstruct(dst, src) ==
    /\ dst # src
    /\ ~ pairs[dst].alive
    /\ pairs[src].alive
    /\ pairs' = [ pairs EXCEPT ![dst] = [ alive |-> TRUE, first |-> pairs[src].first,
                                          second |-> pairs[src].second ],
                               ![src] = [ alive |-> TRUE, first |-> released(pairs[src].first),
                                          second |-> released(pairs[src].second) ] ]
    /\ UNCHANGED << pairCreated, lastRelease >>
    /\ PairOnly

\* pair::operator=(pair&&): first = move(src.first), then second = move(src.second);
\* each member assignment releases what the member held
PairMoveAssign(dst, src) ==
    /\ dst # src
    /\ pairs[dst].alive
    /\ pairs[src].alive
    /\ pairs' = [ pairs EXCEPT ![dst] = [ alive |-> TRUE, first |-> pairs[src].first,
                                          second |-> pairs[src].second ],
                               ![src] = [ alive |-> TRUE, first |-> released(pairs[src].first),
                                          second |-> released(pairs[src].second) ] ]
    /\ lastRelease' = [ valid |-> TRUE, op |-> "assign",
                        calls |-> FreeMemoryCalls(pairs[dst].first) \o DestroyBufferCalls(pairs[dst].second) ]
    /\ UNCHANGED pairCreated
    /\ PairOnly

\* ~pair: members are destroyed in reverse order of declaration, .second and then .first
PairDestroy(p) ==
    /\ pairs[p].alive
    /\ pairs' = [ pairs EXCEPT ![p] = NoPair ]
    /\ lastRelease' = [ valid |-> TRUE, op |-> "destroy",
                        calls |-> DestroyBufferCalls(pairs[p].second) \o FreeMemoryCalls(pairs[p].first) ]
    /\ UNCHANGED pairCreated
    /\ PairOnly

PairNext ==
    \/ \E p \in PairIds, res \in PairResources : PairCreate(p, res)
    \/ \E dst \in PairIds, src \in PairIds : PairMoveConstruct(dst, src)
    \/ \E dst \in PairIds, src \in PairIds : PairMoveAssign(dst, src)
    \/ \E p \in PairIds : PairDestroy(p)

(***************************************************************************)
(* One-off setup submissions: the constructors of SimpleTerrain and        *)
(* SimpleWater                                                             *)
(***************************************************************************)

\* the setup submissions, in program order: copy_cmd with timeline 1, compact_cmd
\* with timeline 2 (both SimpleTerrain), and cmd of SimpleWater
TerrainCopy == "terrain_copy"

TerrainCompact == "terrain_compact"

WaterSetup == "water_setup"

\* copy_sema of SimpleTerrain and sema of SimpleWater, both created with value 0
SetupSemaphores == { "copy_sema", "water_sema" }

\* the semaphore a setup submission signals and the host then waits on
StageSema(stage) == IF stage = WaterSetup THEN "water_sema" ELSE "copy_sema"

\* the timeline value a setup submission signals and the host then waits for
StageValue(stage) == IF stage = TerrainCompact THEN 2 ELSE 1

\* the staging, build-input, scratch and generator buffers a submission's block holds
StageTemporaries(stage, water) ==
    IF stage = TerrainCopy
    THEN { "uniform_staging", "Plane.Temporary" } \cup
         ( IF water THEN { "AccelStructPlane.Temporary", "terrain_transform_mem", "gas_scratch" } ELSE {} )
    ELSE IF stage = WaterSetup
    THEN { "water_data_staging", "instance", "ias_scratch", "WaterSurface.Temporary" }
    ELSE {}

SetupTemporaries ==
    StageTemporaries(TerrainCopy, TRUE) \cup StageTemporaries(WaterSetup, TRUE)

\* the acceleration structure (with its buffer) built by copy_cmd, before compaction
UncompactedGAS == "TerrainAccelStruct(uncompacted)"

\* the acceleration structure compactTerrainAccelStruct returns
CompactedGAS == "compacted_as"

\* the instance acceleration structure built by SimpleWater
SceneIAS == "SceneAccelStruct"

\* the objects created while the commands of a submission are recorded
StageCreates(stage, water) ==
    StageTemporaries(stage, water) \cup
    ( IF stage = TerrainCopy /\ water THEN { UncompactedGAS }
      ELSE IF stage = TerrainCompact THEN { CompactedGAS }
      ELSE IF stage = WaterSetup THEN { SceneIAS }
      ELSE {} )

\* the objects the commands of a submission read or write
StageUses(stage, water) ==
    StageCreates(stage, water) \cup
    ( IF stage = TerrainCompact THEN { UncompactedGAS }
      ELSE IF stage = WaterSetup THEN { CompactedGAS }
      ELSE {} )

\* the objects the constructor destroys once the wait of a submission has returned:
\* releaseTemporary and the end of the block; `TerrainAccelStruct = std::move(compacted_as)`
ReleasedAfterWait(stage, water) ==
    IF stage = TerrainCompact THEN { UncompactedGAS } ELSE StageTemporaries(stage, water)

\* SemaphoreManager::wait inside submit_command: returns once the semaphore reached the value
SetupWaitSatisfied(stage) == setupSema[StageSema(stage)] >= StageValue(stage)

\* the submissions using the object whose signal no host wait has observed
Unobserved(object) ==
    { st \in setupSubmitted :
        /\ object \in StageUses(st, renderWater)
        /\ setupObserved[StageSema(st)] < StageValue(st) }

\* destroying the objects: what the log gains
Destroyed(objects) ==
    { [ object |-> o, unobserved |-> Unobserved(o) ] : o \in objects }

SetupInit ==
    /\ renderWater = FALSE
    /\ setupStage = TerrainCopy
    /\ setupPc = "idle"
    /\ setupAlive = {}
    /\ setupSubmitted = {}
    /\ setupQueue = << >>
    /\ setupSema = [ sm \in SetupSemaphores |-> 0 ]
    /\ setupObserved = [ sm \in SetupSemaphores |-> 0 ]
    /\ destroyLog = {}

\* an exception leaves the constructors: the locals and the members constructed
\* so far are destroyed
SetupUnwind(alive) ==
    /\ destroyLog' = destroyLog \cup Destroyed(alive)
    /\ setupAlive' = {}
    /\ setupPc' = "threw"

\* SimpleTerrain::SimpleTerrain is entered, with or without WaterInfo
SetupStart(water) ==
    /\ setupPc = "idle"
    /\ renderWater' = water
    /\ setupPc' = "record"
    /\ UNCHANGED << setupStage, setupAlive, setupSubmitted, setupQueue, setupSema,
                    setupObserved, destroyLog >>
    /\ SetupOnly

\* the commands of the submission are recorded and the objects they use are created;
\* any of the calls may throw
SetupRecord(ok) ==
    /\ setupPc = "record"
    /\ IF ok
       THEN /\ setupAlive' = setupAlive \cup StageCreates(setupStage, renderWater)
            /\ setupPc' = "submit"
            /\ UNCHANGED destroyLog
       ELSE \E made \in SUBSET StageCreates(setupStage, renderWater) :
                SetupUnwind(setupAlive \cup made)
    /\ UNCHANGED << renderWater, setupStage, setupSubmitted, setupQueue, setupSema, setupObserved >>
    /\ SetupOnly

\* submit_command: vkEndCommandBuffer, then CommandBufferManager::submit signalling the
\* submission's timeline value, with no fence
SetupSubmit(endOk, submitOk) ==
    /\ setupPc = "submit"
    /\ IF endOk /\ submit(NullFence, TRUE, submitOk).submitted
       THEN /\ setupSubmitted' = setupSubmitted \cup { setupStage }
            /\ setupQueue' = Append(setupQueue, setupStage)
            /\ setupPc' = "wait"
            /\ UNCHANGED << setupAlive, destroyLog >>
       ELSE /\ SetupUnwind(setupAlive)
            /\ UNCHANGED << setupSubmitted, setupQueue >>
    /\ UNCHANGED << renderWater, setupStage, setupSema, setupObserved >>
    /\ SetupOnly

\* submit_command: SemaphoreManager::wait returns VK_SUCCESS
SetupWaitReturn ==
    /\ setupPc = "wait"
    /\ SetupWaitSatisfied(setupStage)
    /\ setupObserved' = [ setupObserved EXCEPT ![StageSema(setupStage)] = StageValue(setupStage) ]
    /\ setupPc' = "release"
    /\ UNCHANGED << renderWater, setupStage, setupAlive, setupSubmitted, setupQueue,
                    setupSema, destroyLog >>
    /\ SetupOnly

\* submit_command: vkWaitSemaphores returns an error and CHECK_VULKAN_ERROR throws
SetupWaitFail ==
    /\ setupPc = "wait"
    /\ SetupUnwind(setupAlive)
    /\ UNCHANGED << renderWater, setupStage, setupSubmitted, setupQueue, setupSema, setupObserved >>
    /\ SetupOnly

\* after the wait: releaseTemporary and the end of the block destroy the temporaries
\* (copy_cmd, SimpleWater), the assignment destroys the old structure (compact_cmd);
\* the constructor goes on to its next submission
SetupRelease ==
    /\ setupPc = "release"
    /\ destroyLog' = destroyLog \cup Destroyed(ReleasedAfterWait(setupStage, renderWater) \cap setupAlive)
    /\ setupAlive' = setupAlive \ ReleasedAfterWait(setupStage, renderWater)
    /\ IF setupStage = TerrainCopy /\ renderWater
       THEN setupStage' = TerrainCompact /\ setupPc' = "record"
       ELSE IF setupStage = TerrainCompact
       THEN setupStage' = WaterSetup /\ setupPc' = "record"
       ELSE setupPc' = "done" /\ UNCHANGED setupStage
    /\ UNCHANGED << renderWater, setupSubmitted, setupQueue, setupSema, setupObserved >>
    /\ SetupOnly

\* the device executes the oldest setup submission and signals its timeline value
SetupGpuExecute ==
    /\ Len(setupQueue) > 0
    /\ setupSema' = [ setupSema EXCEPT ![StageSema(Head(setupQueue))] = StageValue(Head(setupQueue)) ]
    /\ setupQueue' = Tail(setupQueue)
    /\ UNCHANGED << renderWater, setupStage, setupPc, setupAlive, setupSubmitted,
                    setupObserved, destroyLog >>
    /\ SetupOnly

SetupNext ==
    \/ \E water \in BOOLEAN : SetupStart(water)
    \/ \E ok \in BOOLEAN : SetupRecord(ok)
    \/ \E endOk \in BOOLEAN, submitOk \in BOOLEAN : SetupSubmit(endOk, submitOk)
    \/ SetupWaitReturn
    \/ SetupWaitFail
    \/ SetupRelease
    \/ SetupGpuExecute

(***************************************************************************)
(* Acceleration structure compaction: AccelStructManager::buildAccelStruct *)
(* with a compaction-size query, then compactAccelStruct                   *)
(***************************************************************************)

\* the compacted sizes a build may report
CompactedSizes == { 2, 3, 4 }

\* what an undefined read of the query may store in `size`
StaleSizes == { 0, 1 }

\* the states of a query: as created by vkCreateQueryPool, after a reset, after a write
QueryStates == { "uninitialized", "unavailable", "available" }

\* the commands of the build's command buffer that touch the query, in recording order:
\* vkCmdResetQueryPool, then the build with vkCmdWriteAccelerationStructuresPropertiesKHR
BuildCommands == << "vkCmdResetQueryPool", "vkCmdWriteAccelerationStructuresPropertiesKHR" >>

\* vkGetQueryPoolResults with VK_QUERY_RESULT_WAIT_BIT: the values the call may return
\* with VK_SUCCESS in `size`; none while it blocks. Reading a query that was never
\* reset is undefined and may block or return anything.
vkGetQueryPoolResults(state, value) ==
    IF state = "available" THEN { value }
    ELSE IF state = "unavailable" THEN {}
    ELSE StaleSizes

NoQueryRead == [ valid |-> FALSE, state |-> "uninitialized" ]

CompactInit ==
    /\ buildSubmitted = FALSE
    /\ buildSize = 0
    /\ deviceCommands = << >>
    /\ queryState = "uninitialized"
    /\ queryValue = 0
    /\ compactPc = "idle"
    /\ size = Indeterminate
    /\ compactedBuffer = 0
    /\ lastQueryRead = NoQueryRead

\* the command buffer that resets the query, builds and writes the compacted size is submitted
BuildSubmit(sz) ==
    /\ ~ buildSubmitted
    /\ buildSubmitted' = TRUE
    /\ buildSize' = sz
    /\ deviceCommands' = BuildCommands
    /\ UNCHANGED << queryState, queryValue, compactPc, size, compactedBuffer, lastQueryRead >>
    /\ CompactOnly

\* the device executes the next command of the build's command buffer
DeviceExecute ==
    /\ Len(deviceCommands) > 0
    /\ IF Head(deviceCommands) = "vkCmdResetQueryPool"
       THEN queryState' = "unavailable" /\ UNCHANGED queryValue
       ELSE queryState' = "available" /\ queryValue' = buildSize
    /\ deviceCommands' = Tail(deviceCommands)
    /\ UNCHANGED << buildSubmitted, buildSize, compactPc, size, compactedBuffer, lastQueryRead >>
    /\ CompactOnly

\* compactAccelStruct is entered, with the host having waited for the build or not
CompactCall ==
    /\ buildSubmitted
    /\ compactPc = "idle"
    /\ compactPc' = "query"
    /\ UNCHANGED << buildSubmitted, buildSize, deviceCommands, queryState, queryValue,
                    size, compactedBuffer, lastQueryRead >>
    /\ CompactOnly

\* line 102-106: vkGetQueryPoolResults returns VK_SUCCESS and has stored the result in `size`
CompactQueryReturn(result) ==
    /\ compactPc = "query"
    /\ result \in vkGetQueryPoolResults(queryState, queryValue)
    /\ size' = result
    /\ lastQueryRead' = [ valid |-> TRUE, state |-> queryState ]
    /\ compactPc' = "allocate"
    /\ UNCHANGED << buildSubmitted, buildSize, deviceCommands, queryState, queryValue, compactedBuffer >>
    /\ CompactOnly

\* line 105: vkGetQueryPoolResults returns an error (device lost), CHECK_VULKAN_ERROR throws
CompactQueryFail ==
    /\ compactPc = "query"
    /\ compactPc' = "threw"
    /\ UNCHANGED << buildSubmitted, buildSize, deviceCommands, queryState, queryValue,
                    size, compactedBuffer, lastQueryRead >>
    /\ CompactOnly

\* line 108-109: createDeviceBuffer with `size`; a failed creation throws
CompactAllocate(ok) ==
    /\ compactPc = "allocate"
    /\ IF ok
       THEN compactedBuffer' = size /\ compactPc' = "create"
       ELSE compactPc' = "threw" /\ UNCHANGED compactedBuffer
    /\ UNCHANGED << buildSubmitted, buildSize, deviceCommands, queryState, queryValue,
                    size, lastQueryRead >>
    /\ CompactOnly

\* line 110-116: createAccelerationStructureKHR over the buffer; a failed creation
\* throws and the buffer is destroyed by unwinding
CompactCreate(ok) ==
    /\ compactPc = "create"
    /\ IF ok
       THEN compactPc' = "copy" /\ UNCHANGED compactedBuffer
       ELSE compactPc' = "threw" /\ compactedBuffer' = 0
    /\ UNCHANGED << buildSubmitted, buildSize, deviceCommands, queryState, queryValue,
                    size, lastQueryRead >>
    /\ CompactOnly

\* line 118-130: vkCmdCopyAccelerationStructureKHR is recorded and the pair is returned
CompactCopy ==
    /\ compactPc = "copy"
    /\ compactPc' = "done"
    /\ UNCHANGED << buildSubmitted, buildSize, deviceCommands, queryState, queryValue,
                    size, compactedBuffer, lastQueryRead >>
    /\ CompactOnly

CompactNext ==
    \/ \E sz \in CompactedSizes : BuildSubmit(sz)
    \/ DeviceExecute
    \/ CompactCall
    \/ \E result \in CompactedSizes \cup StaleSizes : CompactQueryReturn(result)
    \/ CompactQueryFail
    \/ \E ok \in BOOLEAN : CompactAllocate(ok)
    \/ \E ok \in BOOLEAN : CompactCreate(ok)
    \/ CompactCopy

(***************************************************************************)
(* Command buffer recording: beginOneTimeSubmit, beginOneTimeSubmitSecondary*)
(* and vkEndCommandBuffer                                                  *)
(***************************************************************************)

\* the command buffers a renderer records
CommandBuffers == { "copy_cmd", "compact_cmd" }

\* the result codes of vkBeginCommandBuffer and vkEndCommandBuffer
RecordingResults == { "VK_SUCCESS", "VK_ERROR_OUT_OF_HOST_MEMORY" }

\* vkBeginCommandBuffer is valid for a buffer in the initial state, and for an executable
\* one of a pool with the reset bit, which it resets implicitly
BeginValid(state, resettable) ==
    \/ state = "initial"
    \/ (state = "executable" /\ resettable)

\* vkEndCommandBuffer is valid for a buffer in the recording state
EndValid(state) == state = "recording"

\* how a call that CHECK_VULKAN_ERROR wraps ends, given whether the call is valid usage,
\* whether validation is on and the result code the driver returns: with validation on,
\* the layer reports invalid usage to the debug callback, which throws for an error;
\* without it the driver is called unchecked and the macro throws for a code other
\* than VK_SUCCESS only
RecordingCall(valid, validation, result) ==
    IF ~ valid /\ validation THEN "threw_validation"
    ELSE IF ThrowsOn(result) THEN "threw_result"
    ELSE "accepted"

NoRecording ==
    [ valid |-> FALSE, op |-> "none", cmd |-> "copy_cmd", legal |-> TRUE, outcome |-> "accepted" ]

RecordInit ==
    /\ recorderBuilt = FALSE
    /\ EnableValidation = FALSE
    /\ poolResettable = FALSE
    /\ cmdState = [ c \in CommandBuffers |-> "initial" ]
    /\ lastRecording = NoRecording

\* the build (with or without NDEBUG) and the flags of the command pool
RecorderSetup(validation, resettable) ==
    /\ ~ recorderBuilt
    /\ recorderBuilt' = TRUE
    /\ EnableValidation' = validation
    /\ poolResettable' = resettable
    /\ UNCHANGED << cmdState, lastRecording >>
    /\ RecordOnly

\* CommandBufferManager::beginOneTimeSubmit(cmd)
BeginOneTimeSubmit(cmd, result) ==
    /\ recorderBuilt
    /\ LET outcome == RecordingCall(BeginValid(cmdState[cmd], poolResettable), EnableValidation, result)
       IN /\ lastRecording' = [ valid |-> TRUE, op |-> "begin", cmd |-> cmd,
                                legal |-> BeginValid(cmdState[cmd], poolResettable),
                                outcome |-> outcome ]
          /\ cmdState' = IF outcome = "accepted"
                         THEN [ cmdState EXCEPT ![cmd] = "recording" ]
                         ELSE cmdState
    /\ UNCHANGED << recorderBuilt, EnableValidation, poolResettable >>
    /\ RecordOnly

\* CHECK_VULKAN_ERROR(vkEndCommandBuffer(cmd))
EndCommandBuffer(cmd, result) ==
    /\ recorderBuilt
    /\ LET outcome == RecordingCall(EndValid(cmdState[cmd]), EnableValidation, result)
       IN /\ lastRecording' = [ valid |-> TRUE, op |-> "end", cmd |-> cmd,
                                legal |-> EndValid(cmdState[cmd]),
                                outcome |-> outcome ]
          /\ cmdState' = IF outcome = "accepted"
                         THEN [ cmdState EXCEPT ![cmd] = "executable" ]
                         ELSE cmdState
    /\ UNCHANGED << recorderBuilt, EnableValidation, poolResettable >>
    /\ RecordOnly

\* vkResetCommandPool: every command buffer of the pool returns to the initial state
ResetCommandPool ==
    /\ recorderBuilt
    /\ cmdState' = [ c \in CommandBuffers |-> "initial" ]
    /\ UNCHANGED << recorderBuilt, EnableValidation, poolResettable, lastRecording >>
    /\ RecordOnly

RecordNext ==
    \/ \E validation \in BOOLEAN, resettable \in BOOLEAN : RecorderSetup(validation, resettable)
    \/ \E cmd \in CommandBuffers, result \in RecordingResults : BeginOneTimeSubmit(cmd, result)
    \/ \E cmd \in CommandBuffers, result \in RecordingResults : EndCommandBuffer(cmd, result)
    \/ ResetCommandPool


(***************************************************************************)
(* Validation-layer messages: setupDebugCallback::handleMessage and the    *)
(* message control of VulkanContext                                        *)
(***************************************************************************)

\* VkDebugUtilsMessageSeverityFlagBitsEXT
Severity ==
    [ VERBOSE |-> 1, INFO |-> 16, WARNING |-> 256, ERROR |-> 4096 ]

\* pCallbackData->messageIdNumber of the messages the layer reports
MessageIds == { "0x5D1FD459", "midB", "midC" }

\* IgnoredMessageID.cend(), the identifier of a disableMessage that emplaced nothing
cend == "cend"

\* VulkanContext::isMessageDisabled
isMessageDisabled(ignored, mid) == mid \in ignored

\* a callback that raises from warning severity on
handleMessageWarningFatal(messageSeverity, disabled) ==
    IF disabled
    THEN [ printed |-> FALSE, threw |-> FALSE ]
    ELSE [ printed |-> TRUE, threw |-> messageSeverity >= Severity.WARNING ]

\* handleMessage: a disabled message returns at once; any other is printed and, from
\* error severity on, raises runtime_error
handleMessage(messageSeverity, disabled) ==
    IF disabled
    THEN [ printed |-> FALSE, threw |-> FALSE ]
    ELSE [ printed |-> TRUE, threw |-> messageSeverity >= Severity.ERROR ]

NoMessage == [ valid |-> FALSE, severity |-> "VERBOSE", mid |-> "midB", disabled |-> FALSE,
               printed |-> FALSE, threw |-> FALSE ]

\* scopes a caller keeps open at one time
MaxScopes == 2

\* a disableMessage that hands out the element's identifier even when nothing was emplaced
disableMessageReturnsFound(ignored, mid) ==
    [ ignored |-> ignored \cup { mid }, identifier |-> mid ]

\* VulkanContext::disableMessage: emplace; the identifier is the new element's iterator when
\* emplaced, cend() when the id was there already
\* (IgnoredMessageID is a std::unordered_set; the few ids muted at one time never make an
\* insertion rehash, so an identifier stays valid until its element is erased)
disableMessage(ignored, mid) ==
    [ ignored |-> ignored \cup { mid },
      identifier |-> IF mid \in ignored THEN cend ELSE mid ]

\* VulkanContext::enableMessage: nothing for cend(), else the element is erased
enableMessage(ignored, id) == IF id = cend THEN ignored ELSE ignored \ { id }

NoEnd == [ valid |-> FALSE, mid |-> "midB", identifier |-> cend, innermost |-> TRUE,
           restored |-> TRUE ]

MessageInit ==
    /\ IgnoredMessageID = { }
    /\ lastIdentifier = cend
    /\ lastMessage = NoMessage
    /\ scopes = << >>
    /\ nestedOnly = TRUE
    /\ lastEnd = NoEnd

\* CONTEXT_DISABLE_MESSAGE: a scope begins and keeps the identifier disableMessage returned
DisableMessage(mid) ==
    /\ Len(scopes) < MaxScopes
    /\ LET r == disableMessage(IgnoredMessageID, mid)
       IN /\ lastIdentifier' = r.identifier
          /\ IgnoredMessageID' = r.ignored
          /\ scopes' = Append(scopes, [ mid |-> mid, identifier |-> r.identifier,
                                        before |-> IgnoredMessageID ])
    /\ UNCHANGED << lastMessage, nestedOnly, lastEnd >>
    /\ MessageOnly

\* CONTEXT_ENABLE_MESSAGE: the open scope i ends and hands its identifier to enableMessage
EnableMessage(i) ==
    /\ i \in 1 .. Len(scopes)
    /\ IgnoredMessageID' = enableMessage(IgnoredMessageID, scopes[i].identifier)
    /\ lastIdentifier' = cend
    /\ scopes' = [ j \in 1 .. (Len(scopes) - 1) |-> IF j < i THEN scopes[j] ELSE scopes[j + 1] ]
    /\ nestedOnly' = (nestedOnly /\ i = Len(scopes))
    /\ lastEnd' = [ valid |-> TRUE, mid |-> scopes[i].mid, identifier |-> scopes[i].identifier,
                    innermost |-> i = Len(scopes),
                    restored |-> IgnoredMessageID' = scopes[i].before ]
    /\ UNCHANGED lastMessage
    /\ MessageOnly

\* the validation layer reports a message through the callback
HandleMessage(severity, mid) ==
    /\ LET disabled == isMessageDisabled(IgnoredMessageID, mid)
           r == handleMessage(Severity[severity], disabled)
       IN lastMessage' = [ valid |-> TRUE, severity |-> severity, mid |-> mid,
                           disabled |-> disabled, printed |-> r.printed, threw |-> r.threw ]
    /\ UNCHANGED << IgnoredMessageID, lastIdentifier, scopes, nestedOnly, lastEnd >>
    /\ MessageOnly

MessageNext ==
    \/ \E mid \in MessageIds : DisableMessage(mid)
    \/ \E i \in 1 .. MaxScopes : EnableMessage(i)
    \/ \E severity \in DOMAIN Severity, mid \in MessageIds : HandleMessage(severity, mid)


(***************************************************************************)
(* The main loop: runApplication                                           *)
(***************************************************************************)

\* number of frames the loop draws
MaxLoopFrames == 3

\* what engine.draw may raise
DrawErrors == { "VK_ERROR_DEVICE_LOST", "VK_ERROR_OUT_OF_DATE_KHR", "runtime_error" }

\* the return codes of vkDeviceWaitIdle
WaitIdleResults ==
    { "VK_SUCCESS", "VK_ERROR_OUT_OF_HOST_MEMORY", "VK_ERROR_OUT_OF_DEVICE_MEMORY",
      "VK_ERROR_DEVICE_LOST" }

\* clean_up: CHECK_VULKAN_ERROR(vkDeviceWaitIdle(...)); engine.attachRenderer(nullptr)
clean_up(result) ==
    IF result = "VK_SUCCESS"
    THEN [ calls |-> << [ call |-> "vkDeviceWaitIdle", result |-> result ],
                        [ call |-> "attachRenderer", result |-> "nullptr" ] >>,
           threw |-> FALSE ]
    ELSE [ calls |-> << [ call |-> "vkDeviceWaitIdle", result |-> result ] >>,
           threw |-> TRUE ]

\* whether attachRenderer(nullptr) is among the calls
Detaches(calls) == \E i \in 1 .. Len(calls) : calls[i].call = "attachRenderer"

LoopInit ==
    /\ loopPc = "start"
    /\ AttachedRenderer = FALSE
    /\ canvas_event = [ NeedReshape |-> FALSE, CursorMoved |-> FALSE ]
    /\ shouldClose = FALSE
    /\ framesDrawn = 0
    /\ drawError = "none"
    /\ cleanUpCalls = << >>
    /\ propagated = "none"

\* line 264-272: the renderer is attached; canvas_event is declared without an initialiser
LoopStart(needReshape, cursorMoved) ==
    /\ loopPc = "start"
    /\ loopPc' = "running"
    /\ AttachedRenderer' = TRUE
    /\ canvas_event' = [ NeedReshape |-> needReshape, CursorMoved |-> cursorMoved ]
    /\ UNCHANGED << shouldClose, framesDrawn, drawError, cleanUpCalls, propagated >>
    /\ LoopOnly

\* the window callbacks that glfwPollEvents runs, and a close request
CanvasEvent(kind) ==
    /\ loopPc = "running"
    /\ canvas_event' = [ NeedReshape |-> canvas_event.NeedReshape \/ kind = "resize",
                         CursorMoved |-> canvas_event.CursorMoved \/ kind = "cursor" ]
    /\ shouldClose' = (shouldClose \/ kind = "close")
    /\ UNCHANGED << loopPc, AttachedRenderer, framesDrawn, drawError, cleanUpCalls, propagated >>
    /\ LoopOnly

\* one pass of the while body up to the end of the try block: reshape (outside the
\* try), cursor handling, engine.draw
LoopIterate(reshapeOk, drawOutcome) ==
    /\ loopPc = "running"
    /\ ~ shouldClose
    /\ framesDrawn < MaxLoopFrames
    /\ IF canvas_event.NeedReshape /\ ~ reshapeOk
       THEN /\ loopPc' = "left"
            /\ propagated' = "reshape"
            /\ UNCHANGED << canvas_event, framesDrawn, drawError >>
       ELSE /\ canvas_event' = [ NeedReshape |-> FALSE, CursorMoved |-> FALSE ]
            /\ IF drawOutcome = "returned"
               THEN /\ framesDrawn' = framesDrawn + 1
                    /\ UNCHANGED << loopPc, drawError, propagated >>
               ELSE /\ loopPc' = "caught"
                    /\ drawError' = drawOutcome
                    /\ UNCHANGED << framesDrawn, propagated >>
    /\ UNCHANGED << AttachedRenderer, shouldClose, cleanUpCalls >>
    /\ LoopOnly

\* catch (...) { clean_up(); throw; }
CatchCleanUp(result) ==
    /\ loopPc = "caught"
    /\ LET r == clean_up(result)
       IN /\ cleanUpCalls' = r.calls
          /\ AttachedRenderer' = (AttachedRenderer /\ ~ Detaches(r.calls))
          /\ propagated' = IF r.threw THEN result ELSE drawError
    /\ loopPc' = "left"
    /\ UNCHANGED << canvas_event, shouldClose, framesDrawn, drawError >>
    /\ LoopOnly

\* the loop ends on glfwWindowShouldClose, then clean_up()
LoopExit(result) ==
    /\ loopPc = "running"
    /\ shouldClose
    /\ LET r == clean_up(result)
       IN /\ cleanUpCalls' = r.calls
          /\ AttachedRenderer' = (AttachedRenderer /\ ~ Detaches(r.calls))
          /\ propagated' = IF r.threw THEN result ELSE "none"
    /\ loopPc' = "left"
    /\ UNCHANGED << canvas_event, shouldClose, framesDrawn, drawError >>
    /\ LoopOnly

LoopNext ==
    \/ \E needReshape \in BOOLEAN, cursorMoved \in BOOLEAN : LoopStart(needReshape, cursorMoved)
    \/ \E kind \in { "resize", "cursor", "close" } : CanvasEvent(kind)
    \/ \E reshapeOk \in BOOLEAN, drawOutcome \in DrawErrors \cup { "returned" } :
        LoopIterate(reshapeOk, drawOutcome)
    \/ \E result \in WaitIdleResults : CatchCleanUp(result)
    \/ \E result \in WaitIdleResults : LoopExit(result)


(***************************************************************************)
(* Checked API calls: ErrorHandler::checkVulkanError and throwError        *)
(***************************************************************************)

\* number of checked calls that are followed
MaxChecks == 4

\* the VkResult values the checked calls of the program return
VkResults ==
    { 0, 1, 2, 3, 5, 1000001003, 0 - 1, 0 - 2, 0 - 4, 0 - 1000001004 }

\* string_VkResult of vk_enum_string_helper.h
string_VkResult(code) ==
    CASE code = 0 -> "VK_SUCCESS"
      [] code = 1 -> "VK_NOT_READY"
      [] code = 2 -> "VK_TIMEOUT"
      [] code = 3 -> "VK_EVENT_SET"
      [] code = 5 -> "VK_INCOMPLETE"
      [] code = 1000001003 -> "VK_SUBOPTIMAL_KHR"
      [] code = 0 - 1 -> "VK_ERROR_OUT_OF_HOST_MEMORY"
      [] code = 0 - 2 -> "VK_ERROR_OUT_OF_DEVICE_MEMORY"
      [] code = 0 - 4 -> "VK_ERROR_DEVICE_LOST"
      [] code = 0 - 1000001004 -> "VK_ERROR_OUT_OF_DATE_KHR"
      [] OTHER -> "Unhandled VkResult"

\* the places CHECK_VULKAN_ERROR is written at: std::source_location::current() as
\* the default argument is the location of the call
CallSites ==
    { [ file |-> "CommandBufferManager.cpp", function |-> "submit", line |-> 75 ],
      [ file |-> "MasterEngine.cpp", function |-> "draw", line |-> 591 ],
      [ file |-> "MasterEngine.cpp", function |-> "draw", line |-> 647 ],
      [ file |-> "Start.cpp", function |-> "operator()", line |-> 268 ] }

\* ErrorHandler::throwError: the message is prefix_info, then file:function:(line)
throwError(prefix_info, src) ==
    [ threw |-> TRUE,
      what |-> << prefix_info, src.file, ":", src.function, ":(", src.line, ")" >> ]

\* a check that lets the statuses that are not errors pass
checkVulkanErrorNegativeOnly(code, src) ==
    IF code < 0
    THEN throwError(string_VkResult(code), src)
    ELSE [ threw |-> FALSE, what |-> << >> ]

\* ErrorHandler::checkVulkanError
checkVulkanError(code, src) ==
    IF code # 0
    THEN throwError(string_VkResult(code), src)
    ELSE [ threw |-> FALSE, what |-> << >> ]

NoCheck == [ valid |-> FALSE, code |-> 0, src |-> [ file |-> "", function |-> "", line |-> 0 ],
             threw |-> FALSE, what |-> << >> ]

CheckInit ==
    /\ checksMade = 0
    /\ apiCalls = 0
    /\ lastCheck = NoCheck

\* CHECK_VULKAN_ERROR(FUNC): the call is evaluated as the argument, then checked
CheckedCall(code, src) ==
    /\ checksMade < MaxChecks
    /\ checksMade' = checksMade + 1
    /\ apiCalls' = apiCalls + 1
    /\ LET r == checkVulkanError(code, src)
       IN lastCheck' = [ valid |-> TRUE, code |-> code, src |-> src,
                         threw |-> r.threw, what |-> r.what ]
    /\ CheckOnly

CheckNext ==
    \E code \in VkResults, src \in CallSites : CheckedCall(code, src)


(***************************************************************************)
(* Acceleration structure build: AccelStructManager::buildAccelStruct      *)
(***************************************************************************)

\* VkAccelerationStructureTypeKHR
AccelStructTypes == { "TOP_LEVEL", "BOTTOM_LEVEL" }

\* the primitiveCount of each build range; a top-level build has one geometry
RangeChoices(type) ==
    IF type = "TOP_LEVEL"
    THEN { << 0 >>, << 1 >>, << 2 >> }
    ELSE { << 0 >>, << 1 >>, << 2 >>, << 1, 0 >>, << 1, 2 >>, << 0, 0 >> }

\* AccelStructBuildInfo::CompactionQuery, an optional (query pool, query index)
NoQuery == "nullopt"

QueryChoices == { NoQuery, "accel_struct_query:0" }

\* what vkGetAccelerationStructureBuildSizesKHR may report for the primitive counts:
\* an implementation may need no storage or no scratch memory for an empty build
BuildSizes(max_primitive_count) ==
    LET total == SumSeq(max_primitive_count)
    IN IF total = 0
       THEN { [ accelerationStructureSize |-> a, buildScratchSize |-> b ] :
                a \in { 0, 64 }, b \in { 0, 16 } }
       ELSE { [ accelerationStructureSize |-> 64 * total, buildScratchSize |-> 16 * total ] }

\* the wrapper's std::array<uint32_t, GeometryCount> max_primitive_count, not initialised
UninitialisedCounts(range) == [ i \in 1 .. Len(range) |-> Indeterminate ]

\* transform(range, max_primitive_count.begin(), primitiveCount of the range)
FillCounts(range, max_primitive_count) == [ i \in 1 .. Len(max_primitive_count) |-> range[i] ]

\* createBufferFromAllocator: vmaCreateBuffer refuses a size of 0 and may run out of
\* memory; CHECK_VULKAN_ERROR throws on either
BufferCreated(bytes, memoryOk) == bytes > 0 /\ memoryOk

\* the commands recorded after the build command when a compaction query is supplied
QueryCommands(compaction_query) ==
    IF compaction_query = NoQuery
    THEN << >>
    ELSE << [ command |-> "vkCmdPipelineBarrier2", buffer |-> "as_memory",
              srcAccess |-> "ACCELERATION_STRUCTURE_WRITE", dstAccess |-> "ACCELERATION_STRUCTURE_READ",
              primitiveCount |-> << >>, query |-> NoQuery ],
            [ command |-> "vkCmdWriteAccelerationStructuresPropertiesKHR", buffer |-> "none",
              srcAccess |-> "none", dstAccess |-> "none",
              primitiveCount |-> << >>, query |-> compaction_query ] >>

\* the creation that fails first: the storage buffer, the scratch buffer, the structure
BuildFailure(size_info, asOk, scratchOk, createOk) ==
    IF ~ BufferCreated(size_info.accelerationStructureSize, asOk) THEN "as_memory"
    ELSE IF ~ BufferCreated(size_info.buildScratchSize, scratchOk) THEN "scratch_memory"
    ELSE IF ~ createOk THEN "as"
    ELSE "none"

\* vkCmdBuildAccelerationStructuresKHR(cmd, 1u, &vk_build_info, &range_ptr)
BuildCommand(range) ==
    [ command |-> "vkCmdBuildAccelerationStructuresKHR", buffer |-> "scratch_memory",
      srcAccess |-> "none", dstAccess |-> "none", primitiveCount |-> range, query |-> NoQuery ]

\* a build that writes the properties before the barrier
buildAccelStructWritesFirst(type, range, compaction_query, size_info, asOk, scratchOk, createOk) ==
    LET at == BuildFailure(size_info, asOk, scratchOk, createOk)
        after == QueryCommands(compaction_query)
    IN IF at # "none"
       THEN [ threw |-> TRUE, at |-> at, commands |-> << >>, live |-> { } ]
       ELSE [ threw |-> FALSE, at |-> at,
              commands |-> << BuildCommand(range) >>
                           \o [ i \in 1 .. Len(after) |-> after[Len(after) + 1 - i] ],
              live |-> { "as_memory", "as", "scratch_memory" } ]

\* a build that never records a count below one
buildAccelStructAtLeastOne(type, range, compaction_query, size_info, asOk, scratchOk, createOk) ==
    LET at == BuildFailure([ accelerationStructureSize |-> size_info.accelerationStructureSize + 1,
                             buildScratchSize |-> size_info.buildScratchSize + 1 ],
                           asOk, scratchOk, createOk)
    IN IF at # "none"
       THEN [ threw |-> TRUE, at |-> at, commands |-> << >>, live |-> { } ]
       ELSE [ threw |-> FALSE, at |-> at,
              commands |-> << BuildCommand([ i \in 1 .. Len(range) |->
                                               IF range[i] = 0 THEN 1 ELSE range[i] ]) >>
                           \o QueryCommands(compaction_query),
              live |-> { "as_memory", "as", "scratch_memory" } ]

\* _Detail::buildAccelStruct after the size query: the two device buffers, the structure
\* object, the build command, then the barrier and the property write for a query.
\* An exception destroys what was created before it.
buildAccelStruct(type, range, compaction_query, size_info, asOk, scratchOk, createOk) ==
    LET at == BuildFailure(size_info, asOk, scratchOk, createOk)
    IN IF at # "none"
       THEN [ threw |-> TRUE, at |-> at, commands |-> << >>, live |-> { } ]
       ELSE [ threw |-> FALSE, at |-> at,
              commands |-> << BuildCommand(range) >> \o QueryCommands(compaction_query),
              live |-> { "as_memory", "as", "scratch_memory" } ]

NoBuild == [ valid |-> FALSE, type |-> "TOP_LEVEL", range |-> << >>, query |-> NoQuery,
             threw |-> FALSE, at |-> "none", max_primitive_count |-> << >>,
             size_info |-> [ accelerationStructureSize |-> 0, buildScratchSize |-> 0 ] ]

NoStructure == [ built |-> FALSE, primitiveCount |-> 0, sizeWritten |-> FALSE ]

AsbuildInit ==
    /\ lastBuild = NoBuild
    /\ recorded = << >>
    /\ buildLive = { }
    /\ structure = NoStructure

\* a buildAccelStruct call on a command buffer that is recording
BuildAccelStruct(type, range, compaction_query, size_info, asOk, scratchOk, createOk) ==
    /\ LET max_primitive_count == FillCounts(range, UninitialisedCounts(range))
           r == buildAccelStruct(type, range, compaction_query, size_info, asOk, scratchOk, createOk)
       IN /\ size_info \in BuildSizes(max_primitive_count)
          /\ lastBuild' = [ valid |-> TRUE, type |-> type, range |-> range,
                            query |-> compaction_query, threw |-> r.threw, at |-> r.at,
                            max_primitive_count |-> max_primitive_count,
                            size_info |-> size_info ]
          /\ recorded' = r.commands
          /\ buildLive' = r.live
    /\ structure' = NoStructure
    /\ AsbuildOnly

\* the device executes the recorded commands: the structure holds the primitives of the
\* build command, and the property write makes the compacted size available
ExecuteBuild ==
    /\ recorded # << >>
    /\ ~ structure.built
    /\ structure' = [ built |-> TRUE,
                      primitiveCount |-> SumSeq(recorded[1].primitiveCount),
                      sizeWritten |-> \E i \in 1 .. Len(recorded) :
                          recorded[i].command = "vkCmdWriteAccelerationStructuresPropertiesKHR" ]
    /\ UNCHANGED << lastBuild, recorded, buildLive >>
    /\ AsbuildOnly

AsbuildNext ==
    \/ \E type \in AccelStructTypes, compaction_query \in QueryChoices,
          asOk \in BOOLEAN, scratchOk \in BOOLEAN, createOk \in BOOLEAN :
        \E range \in RangeChoices(type) :
            \E size_info \in BuildSizes(range) :
                BuildAccelStruct(type, range, compaction_query, size_info, asOk, scratchOk, createOk)
    \/ ExecuteBuild

(***************************************************************************)
(* Reshape: MasterEngine::reshape, attachRenderer and the renderer's        *)
(* reshape command buffer of the Reshape pool                               *)
(***************************************************************************)

\* reshape events the window delivers
MaxReshapes == 3

\* work the render queue may still be executing: the renderer's reshape command buffer and
\* the frame of each slot, which renders to a swapchain image
ReshapeWork == "TerrainReshapeCmd"

FrameWork == { "Frame0", "Frame1" }

\* a reshape that tears the presentation down before it waits for the device
reshapeDestroysFirst ==
    << "SwapChain.reset", "vkResetCommandPool", "vkDeviceWaitIdle", "createPresentation",
       "attachRenderer", "setAspect" >>

\* MasterEngine::reshape, the calls it makes in order once the framebuffer has a size
reshape ==
    << "vkDeviceWaitIdle", "SwapChain.reset", "vkResetCommandPool", "createPresentation",
       "attachRenderer", "setAspect" >>

\* the call MasterEngine::reshape is about to make
ReshapeAt(call) == rsPc > 0 /\ reshape[rsPc] = call

NoTeardown == [ valid |-> FALSE, call |-> "none", waited |-> FALSE, pending |-> { } ]

ReshapeInit ==
    /\ rsPc = 0
    /\ rsLeft = FALSE
    /\ rsAttached = FALSE
    /\ rsPending = { }
    /\ rsSwapChain = "alive"
    /\ rsCmdState = "Initial"
    /\ rsWaited = FALSE
    /\ rsCount = 0
    /\ lastTeardown = NoTeardown

\* RendererInterface::reshape (SimpleTerrain::reshape): beginOneTimeSubmit on the reshape
\* command buffer, vkEndCommandBuffer, submit with no semaphore and no fence
RendererReshape ==
    /\ rsCmdState' = "Pending"
    /\ rsPending' = rsPending \cup { ReshapeWork }

\* MasterEngine::attachRenderer called by the application at start-up
RsAttachRenderer ==
    /\ rsPc = 0
    /\ ~ rsLeft
    /\ ~ rsAttached
    /\ rsAttached' = TRUE
    /\ RendererReshape
    /\ UNCHANGED << rsPc, rsLeft, rsSwapChain, rsWaited, rsCount, lastTeardown >>
    /\ ReshapeOnly

\* MasterEngine::draw between two reshapes: the frame of a slot whose earlier frame has
\* finished is submitted and presented
RsDrawFrame(w) ==
    /\ rsPc = 0
    /\ ~ rsLeft
    /\ rsAttached
    /\ w \notin rsPending
    /\ rsPending' = rsPending \cup { w }
    /\ UNCHANGED << rsPc, rsLeft, rsAttached, rsSwapChain, rsCmdState, rsWaited, rsCount,
                    lastTeardown >>
    /\ ReshapeOnly

\* the queue finishes one piece of work; a one-time-submit command buffer becomes Invalid
RsGpuFinish(w) ==
    /\ w \in rsPending
    /\ rsPending' = rsPending \ { w }
    /\ rsCmdState' = IF w = ReshapeWork THEN "Invalid" ELSE rsCmdState
    /\ UNCHANGED << rsPc, rsLeft, rsAttached, rsSwapChain, rsWaited, rsCount, lastTeardown >>
    /\ ReshapeOnly

\* the loop calls engine.reshape(canvas)
ReshapeBegin ==
    /\ rsPc = 0
    /\ ~ rsLeft
    /\ rsCount < MaxReshapes
    /\ rsPc' = 1
    /\ rsWaited' = FALSE
    /\ UNCHANGED << rsLeft, rsAttached, rsPending, rsSwapChain, rsCmdState, rsCount,
                    lastTeardown >>
    /\ ReshapeOnly

\* CHECK_VULKAN_ERROR(vkDeviceWaitIdle): VK_SUCCESS comes back only when the queues are idle;
\* any other code makes reshape throw, and reshape is called outside the loop's try block
ReshapeWaitIdle(result) ==
    /\ ReshapeAt("vkDeviceWaitIdle")
    /\ IF result = "VK_SUCCESS"
       THEN /\ rsPending = { }
            /\ rsWaited' = TRUE
            /\ rsPc' = rsPc + 1
            /\ UNCHANGED rsLeft
       ELSE /\ rsPc' = 0
            /\ rsLeft' = TRUE
            /\ UNCHANGED rsWaited
    /\ UNCHANGED << rsAttached, rsPending, rsSwapChain, rsCmdState, rsCount, lastTeardown >>
    /\ ReshapeOnly

\* this->SwapChain->reset(): the old swapchain is destroyed
ReshapeSwapChainReset ==
    /\ ReshapeAt("SwapChain.reset")
    /\ rsSwapChain' = "destroyed"
    /\ lastTeardown' = [ valid |-> TRUE, call |-> "SwapChain.reset", waited |-> rsWaited,
                         pending |-> rsPending ]
    /\ rsPc' = rsPc + 1
    /\ UNCHANGED << rsLeft, rsAttached, rsPending, rsCmdState, rsWaited, rsCount >>
    /\ ReshapeOnly

\* CHECK_VULKAN_ERROR(vkResetCommandPool(Reshape)): the pool's command buffers return to Initial
ReshapeResetPool(result) ==
    /\ ReshapeAt("vkResetCommandPool")
    /\ lastTeardown' = [ valid |-> TRUE, call |-> "vkResetCommandPool", waited |-> rsWaited,
                         pending |-> rsPending ]
    /\ IF result = "VK_SUCCESS"
       THEN /\ rsCmdState' = "Initial"
            /\ rsPc' = rsPc + 1
            /\ UNCHANGED rsLeft
       ELSE /\ rsPc' = 0
            /\ rsLeft' = TRUE
            /\ UNCHANGED rsCmdState
    /\ UNCHANGED << rsAttached, rsPending, rsSwapChain, rsWaited, rsCount >>
    /\ ReshapeOnly

\* createPresentation: a new swapchain, or a throw when its creation fails
ReshapeCreatePresentation(ok) ==
    /\ ReshapeAt("createPresentation")
    /\ IF ok
       THEN /\ rsSwapChain' = "alive"
            /\ rsPc' = rsPc + 1
            /\ UNCHANGED rsLeft
       ELSE /\ rsPc' = 0
            /\ rsLeft' = TRUE
            /\ UNCHANGED rsSwapChain
    /\ UNCHANGED << rsAttached, rsPending, rsCmdState, rsWaited, rsCount, lastTeardown >>
    /\ ReshapeOnly

\* attachRenderer(this->AttachedRenderer): the attached renderer, if any, reshapes
ReshapeAttach ==
    /\ ReshapeAt("attachRenderer")
    /\ IF rsAttached THEN RendererReshape ELSE UNCHANGED << rsCmdState, rsPending >>
    /\ rsPc' = rsPc + 1
    /\ UNCHANGED << rsLeft, rsAttached, rsSwapChain, rsWaited, rsCount, lastTeardown >>
    /\ ReshapeOnly

\* SceneCamera->setAspect, and reshape returns
ReshapeSetAspect ==
    /\ ReshapeAt("setAspect")
    /\ rsPc' = 0
    /\ rsCount' = rsCount + 1
    /\ UNCHANGED << rsLeft, rsAttached, rsPending, rsSwapChain, rsCmdState, rsWaited,
                    lastTeardown >>
    /\ ReshapeOnly

ReshapeNext ==
    \/ RsAttachRenderer
    \/ \E w \in FrameWork : RsDrawFrame(w)
    \/ \E w \in FrameWork \cup { ReshapeWork } : RsGpuFinish(w)
    \/ ReshapeBegin
    \/ \E result \in WaitIdleResults : ReshapeWaitIdle(result)
    \/ ReshapeSwapChainReset
    \/ \E result \in { "VK_SUCCESS", "VK_ERROR_OUT_OF_DEVICE_MEMORY" } : ReshapeResetPool(result)
    \/ \E ok \in BOOLEAN : ReshapeCreatePresentation(ok)
    \/ ReshapeAttach
    \/ ReshapeSetAspect

(***************************************************************************)
(* Specifications.                                                         *)
(***************************************************************************)
Init ==
    /\ DrawInit
    /\ DbInit
    /\ SubmitInit
    /\ BatchInit
    /\ HandleInit
    /\ PairInit
    /\ SetupInit
    /\ CompactInit
    /\ RecordInit
    /\ MessageInit
    /\ LoopInit
    /\ CheckInit
    /\ AsbuildInit
    /\ ReshapeInit

SpecDraw == Init /\ [][DrawNext]_vars

SpecDb == Init /\ [][DbNext]_vars

SpecSubmit == Init /\ [][SubmitNext]_vars

SpecBatch == Init /\ [][BatchNext]_vars

SpecHandle == Init /\ [][HandleNext]_vars

SpecPair == Init /\ [][PairNext]_vars

SpecSetup == Init /\ [][SetupNext]_vars

SpecCompact == Init /\ [][CompactNext]_vars

SpecRecord == Init /\ [][RecordNext]_vars

SpecReshape == Init /\ [][ReshapeNext]_vars

SpecAsbuild == Init /\ [][AsbuildNext]_vars

SpecCheck == Init /\ [][CheckNext]_vars

SpecLoop == Init /\ [][LoopNext]_vars

SpecMessage == Init /\ [][MessageNext]_vars

(***************************************************************************)
(* Properties of the frame-in-flight pacer.                                *)
(***************************************************************************)

\* C1: whenever the command pool of a slot is reset, the value most recently
\* signalled by a submission for that slot has been observed by a host wait on
\* the slot's timeline semaphore, and no submission of the slot is pending.
C1_ResetOnlyAfterObserved ==
    lastReset.valid =>
        /\ lastReset.lastSignalled <= lastReset.observed
        /\ ~ lastReset.pending

\* a pool is reset for reuse after its slot has already submitted two frames
C1_Witness ==
    /\ lastReset.valid
    /\ lastReset.slot = 1
    /\ lastReset.lastSignalled = 2

\* C4: every submission of draw signals the slot's timeline semaphore to one
\* more than the value the host waited for at the start of that draw, so the
\* values signalled on a slot are 1, 2, 3, ... in submission order.
C4_SignalIsWaitedPlusOne ==
    /\ lastSubmit.valid => lastSubmit.signalled = lastSubmit.waited + 1
    /\ \A k \in Slots : \A i \in 1 .. Len(signalLog[k]) : signalLog[k][i] = i

\* both slots have submitted, slot 0 more than once
C4_Witness ==
    /\ Len(signalLog[0]) >= 2
    /\ Len(signalLog[1]) >= 1
    /\ lastSubmit.valid /\ lastSubmit.signalled >= 2

\* frames submitted to the GPU whose timeline signal has not been reached yet
OutstandingFrames == UNION { { << k, v >> : v \in Pending(k) } : k \in Slots }

\* C5: at every moment at most MaxFrameInFlight frames are submitted and unfinished.
C5_OutstandingBounded == Cardinality(OutstandingFrames) <= MaxFrameInFlight

\* the bound is reached while the host is blocked trying to start another frame
C5_Witness ==
    /\ Cardinality(OutstandingFrames) = MaxFrameInFlight
    /\ drawPc = "wait"
    /\ drawCalls > MaxFrameInFlight

(***************************************************************************)
(* Properties of the descriptor buffer updater protocol.                   *)
(***************************************************************************)

\* C2: createUpdater called while another updater of the manager is alive raises
\* the error before the flush list is cleared, before the allocation is mapped
\* and before descriptor memory is written; the recorded ranges stay as they were.
C2_SecondUpdaterRejectedEarly ==
    (lastCreate.valid /\ lastCreate.liveBefore) =>
        /\ lastCreate.result = "threw_alive"
        /\ lastCreate.flushKept
        /\ ~ lastCreate.mapped
        /\ lastCreate.steps = << "check" >>

\* a second createUpdater was attempted while the live updater had recorded ranges
C2_Witness ==
    /\ lastCreate.valid
    /\ lastCreate.liveBefore
    /\ lastCreate.result = "threw_alive"
    /\ lastCreate.rangesBefore >= 1
    /\ Len(Flush) = lastCreate.rangesBefore

\* C3: at most one updater of the manager is alive at any time.
C3_AtMostOneUpdater == Cardinality(liveUpdaters) <= 1

\* an updater is alive, has recorded a range, and a second createUpdater was refused
C3_Witness ==
    /\ Cardinality(liveUpdaters) = 1
    /\ lastCreate.result = "threw_alive"
    /\ lastUpdate.result = "ok"

\* C10: destroying an updater makes exactly one flush call that covers every
\* range recorded in the session, and leaves the manager not busy, so that the
\* createUpdater that follows is accepted.
C10_DestroyFlushesOnceAndFrees ==
    /\ lastDestroy.valid =>
        /\ lastDestroy.flushCalls = 1
        /\ lastDestroy.covers
        /\ ~ lastDestroy.terminated => ~ lastDestroy.aliveAfter
    /\ (lastCreate.valid /\ lastCreate.prevOp = "destroy" /\ lastCreate.mapOk) =>
        lastCreate.result = "ok"

\* a session with two recorded ranges was destroyed and a new updater was created after it
C10_Witness ==
    /\ lastDestroy.valid
    /\ ~ lastDestroy.terminated
    /\ lastDestroy.sessionLen = 2
    /\ lastCreate.prevOp = "destroy"
    /\ lastCreate.result = "ok"

(***************************************************************************)
(* Properties of command submission.                                       *)
(***************************************************************************)

\* positions in the call list of the most recent submit call at which `call` was made
CallPositions(call) ==
    { i \in 1 .. Len(lastSubmitCall.calls) : lastSubmitCall.calls[i].call = call }

\* C6: a submit call given a fence resets that fence before its queue submission
\* and never after it; a submit call given no fence resets no fence.
C6_FenceResetBeforeSubmit ==
    lastSubmitCall.valid =>
        /\ \A i \in CallPositions("vkResetFences"), j \in CallPositions("vkQueueSubmit2") : i < j
        /\ \A i \in CallPositions("vkResetFences") : lastSubmitCall.calls[i].fence = lastSubmitCall.fence
        /\ (lastSubmitCall.fence # NullFence /\ CallPositions("vkQueueSubmit2") # {}) =>
               CallPositions("vkResetFences") # {}
        /\ lastSubmitCall.fence = NullFence => CallPositions("vkResetFences") = {}

\* a submit call with a fence went through: the fence was reset and then used by the submission
C6_Witness ==
    /\ lastSubmitCall.valid
    /\ lastSubmitCall.fence = "fenceA"
    /\ ~ lastSubmitCall.threw
    /\ Len(lastSubmitCall.calls) = 2
    /\ "fenceA" \in SeqToSet(queue)

(***************************************************************************)
(* Properties of the pipeline barrier batch.                               *)
(***************************************************************************)

\* C7: appending a barrier to a batch that already holds as many barriers of
\* that kind as its capacity is rejected: the entry count never exceeds the
\* capacity, the stored entries stay as they are, and nothing is written
\* outside the batch's storage.
C7_AppendBeyondCapacityRejected ==
    /\ \A k \in KindSet : batch[k].Size <= capacity(batch[k])
    /\ strayWrites = 0
    /\ (lastAdd.valid /\ lastAdd.full) => (lastAdd.rejected /\ lastAdd.kept)

\* C20: after clear, whatever appends preceded it, the batch holds no barrier
\* of any kind, and a record call that follows emits one dependency command
\* whose memory, buffer and image barrier counts are all zero.
C20_RecordAfterClearIsEmpty ==
    /\ lastClear.valid => \A k \in KindSet : Len(Emitted(batch[k])) = 0
    /\ (lastRecord.valid /\ lastRecord.afterClear) =>
        /\ lastRecord.commands = 1
        /\ Len(lastRecord.MemoryBarrier) = 0
        /\ Len(lastRecord.BufferBarrier) = 0
        /\ Len(lastRecord.ImageBarrier) = 0

\* a record call that followed a clear which dropped barriers of several appends
C20_Witness ==
    /\ lastRecord.valid
    /\ lastRecord.afterClear
    /\ lastRecord.dropped >= 2
    /\ lastClear.valid

\* C21: when every append since the last clear was within capacity, record
\* emits exactly one dependency command whose memory, buffer and image barrier
\* lists are the appended entries of each kind, in append order.
C21_RecordEmitsAppendedInOrder ==
    (lastRecord.valid /\ lastRecord.withinCapacity) =>
        /\ lastRecord.commands = 1
        /\ lastRecord.MemoryBarrier = lastRecord.appended["MemoryBarrier"]
        /\ lastRecord.BufferBarrier = lastRecord.appended["BufferBarrier"]
        /\ lastRecord.ImageBarrier = lastRecord.appended["ImageBarrier"]

\* a record call after two different image barriers and a memory barrier were
\* appended, following an earlier clear
C21_Witness ==
    /\ lastRecord.valid
    /\ lastRecord.withinCapacity
    /\ lastRecord.ImageBarrier = << "barrierY", "barrierX" >>
    /\ Len(lastRecord.MemoryBarrier) = 1
    /\ ~ lastRecord.afterClear


\* C22 as stated: every validation-layer message whose severity is error or
\* higher raises an exception, and no message of lower severity does.
C22_ErrorSeverityAlwaysRaises ==
    lastMessage.valid =>
        (lastMessage.threw <=> Severity[lastMessage.severity] >= Severity.ERROR)

\* C22 as amended: every validation-layer message whose severity is error or
\* higher and whose message id is not disabled raises an exception; no message
\* of lower severity and no message with a disabled id does.
C22_EnabledErrorSeverityRaises ==
    lastMessage.valid =>
        (lastMessage.threw <=>
            (Severity[lastMessage.severity] >= Severity.ERROR /\ ~ lastMessage.disabled))

\* an error message raised after its id was disabled and enabled again, while
\* another id is disabled
C22_Witness ==
    /\ lastMessage.valid
    /\ lastMessage.severity = "ERROR"
    /\ lastMessage.threw
    /\ lastMessage.mid = "0x5D1FD459"
    /\ IgnoredMessageID = { "midB" }


\* C23: whenever a draw call raises an error in the main loop, the application
\* has waited for the device to become idle and then detached the renderer
\* by the time an error leaves the loop.
C23_CleanUpBeforeErrorLeaves ==
    (loopPc = "left" /\ drawError # "none") =>
        /\ Len(cleanUpCalls) = 2
        /\ cleanUpCalls[1] = [ call |-> "vkDeviceWaitIdle", result |-> "VK_SUCCESS" ]
        /\ cleanUpCalls[2].call = "attachRenderer"
        /\ ~ AttachedRenderer


\* C24: a checked call that returns a status other than success, statuses that
\* are not errors included, raises an exception whose message names the result
\* code and the place of the call; a call that returns success raises nothing;
\* the call is made once.
C24_NonSuccessRaisesWithCodeAndPlace ==
    /\ apiCalls = checksMade
    /\ lastCheck.valid =>
        /\ lastCheck.threw <=> lastCheck.code # 0
        /\ lastCheck.threw =>
            /\ lastCheck.what[1] = string_VkResult(lastCheck.code)
            /\ lastCheck.what[1] # "Unhandled VkResult"
            /\ \A other \in VkResults \ { lastCheck.code } :
                string_VkResult(other) # lastCheck.what[1]
            /\ lastCheck.what[2] = lastCheck.src.file
            /\ lastCheck.what[4] = lastCheck.src.function
            /\ lastCheck.what[6] = lastCheck.src.line

\* a presentation that returned VK_SUBOPTIMAL_KHR raised, after earlier checked calls
C24_Witness ==
    /\ lastCheck.valid
    /\ lastCheck.code = 1000001003
    /\ lastCheck.threw
    /\ lastCheck.src.line = 647
    /\ checksMade >= 2


\* C25: an update call whose descriptor type is not a supported one raises an
\* error, with no descriptor written to the buffer and no range appended to
\* the flush list.
C25_UnsupportedTypeRaisesBeforeWrite ==
    (lastUpdate.result # "none" /\ ~ lastUpdate.supported) =>
        /\ lastUpdate.result = "threw"
        /\ ~ lastUpdate.written
        /\ lastUpdate.flushAdded = 0

\* an update with an unsupported type raised in a session that already holds a range
C25_Witness ==
    /\ lastUpdate.result = "threw"
    /\ ~ lastUpdate.supported
    /\ Len(sessionRanges) >= 1
    /\ Cardinality(liveUpdaters) = 1


\* C30: in every reachable state, also after a failed memory mapping in the
\* updater's constructor or a failed flush in its destructor, the manager's
\* busy flag is set if and only if an updater of that manager is alive.
C30_BusyIffUpdaterAlive ==
    dbmConstructed => (UpdaterAlive <=> liveUpdaters # { })


\* C26: building a top-level acceleration structure over 0 primitives either
\* raises an error, or records a build of zero primitives and yields a
\* structure that holds zero primitives.
C26_EmptyTopLevelRejectedOrEmpty ==
    (lastBuild.valid /\ lastBuild.type = "TOP_LEVEL" /\ SumSeq(lastBuild.range) = 0) =>
        \/ lastBuild.threw /\ recorded = << >> /\ buildLive = { } /\ ~ structure.built
        \/ /\ ~ lastBuild.threw
           /\ SumSeq(lastBuild.max_primitive_count) = 0
           /\ recorded[1].command = "vkCmdBuildAccelerationStructuresKHR"
           /\ SumSeq(recorded[1].primitiveCount) = 0
           /\ structure.built => structure.primitiveCount = 0

\* an empty top-level build was recorded and executed
C26_Witness ==
    /\ lastBuild.valid
    /\ lastBuild.type = "TOP_LEVEL"
    /\ lastBuild.range = << 0 >>
    /\ ~ lastBuild.threw
    /\ structure.built

\* C27: a build records exactly one build command; exactly when a
\* compaction-size query was supplied it then records a barrier from build
\* writes to build reads on the structure's buffer and after it the property
\* write for that query.
C27_BuildThenBarrierThenPropertyWrite ==
    (lastBuild.valid /\ ~ lastBuild.threw) =>
        /\ Cardinality({ i \in 1 .. Len(recorded) :
                            recorded[i].command = "vkCmdBuildAccelerationStructuresKHR" }) = 1
        /\ recorded[1].command = "vkCmdBuildAccelerationStructuresKHR"
        /\ lastBuild.query = NoQuery => Len(recorded) = 1
        /\ lastBuild.query # NoQuery =>
            /\ Len(recorded) = 3
            /\ recorded[2].command = "vkCmdPipelineBarrier2"
            /\ recorded[2].buffer = "as_memory"
            /\ recorded[2].srcAccess = "ACCELERATION_STRUCTURE_WRITE"
            /\ recorded[2].dstAccess = "ACCELERATION_STRUCTURE_READ"
            /\ recorded[3].command = "vkCmdWriteAccelerationStructuresPropertiesKHR"
            /\ recorded[3].query = lastBuild.query

\* a bottom-level build with a compaction query was recorded and executed
C27_Witness ==
    /\ lastBuild.valid
    /\ ~ lastBuild.threw
    /\ lastBuild.query # NoQuery
    /\ lastBuild.type = "BOTTOM_LEVEL"
    /\ Len(recorded) = 3
    /\ structure.sizeWritten


\* C28: every host wait that draw issues for a slot targets the initial value 0
\* of the timeline semaphore or a value whose signal has already been
\* submitted for that slot; draw never waits for a value no submission signals.
C28_WaitTargetsSubmittedValue ==
    drawPc = "wait" =>
        \/ waitValue = InitialTimelineValue
        \/ waitValue \in SeqToSet(signalLog[FrameInFlightIndex])

\* C29: after a draw call that raised an error, the frame counter stored for
\* the slot equals the highest value whose signal has been submitted on the
\* slot's timeline semaphore (the initial value when there is none).
C29_FailedDrawKeepsCounterMatched ==
    (drawPc = "idle" /\ drawResult = "threw") =>
        FrameCounter[FrameInFlightIndex]
            = MaxOf(SeqToSet(signalLog[FrameInFlightIndex]), InitialTimelineValue)

\* C36 (as stated): a second record on the same batch, with no append in
\* between, emits no barriers.
C36_SecondRecordEmitsNothing ==
    (lastRecord.valid /\ lastRecord.again)
        => /\ lastRecord.MemoryBarrier = << >>
           /\ lastRecord.BufferBarrier = << >>
           /\ lastRecord.ImageBarrier = << >>

\* C36 (amended): record leaves the accumulated entries in place. A second
\* record on the same batch, with no append and no clear in between, emits
\* exactly the lists the first one emitted.
C36_SecondRecordEmitsSameLists ==
    (lastRecord.valid /\ lastRecord.again)
        => << lastRecord.MemoryBarrier, lastRecord.BufferBarrier, lastRecord.ImageBarrier >>
               = lastRecord.previous

\* a second record in a row that emits two image barriers once more
C36_Witness ==
    /\ lastRecord.valid
    /\ lastRecord.again
    /\ lastRecord.withinCapacity
    /\ Len(lastRecord.ImageBarrier) = 2
    /\ lastRecord.previous[3] = lastRecord.ImageBarrier

\* C34: the one flush made when an updater session ends is handed exactly the
\* ranges of the update calls completed in that session: one entry per call, in
\* call order, nothing left from an earlier session and no two entries merged.
C34_FlushIsExactlyTheSessionRanges ==
    lastDestroy.valid => (lastDestroy.flushCalls = 1 /\ lastDestroy.exact)

\* a second session whose two updates wrote the same range ends with a flush
\* of those two entries, the earlier session having left entries behind
C34_Witness ==
    /\ lastDestroy.valid
    /\ dbLastOp = "destroy"
    /\ lastCreate.result = "ok"
    /\ lastCreate.rangesBefore > 0
    /\ lastDestroy.sessionLen = 2
    /\ lastDestroy.repeats
    /\ lastDestroy.exact

\* std::has_single_bit
HasSingleBit(n) == n \in { 1, 2, 4, 8, 16, 32, 64 }

\* the rounded size the constructor stored for set i before the scan, for i below the last set
RoundedSizeOf(i) == Offset[i + 1] - Offset[i]

\* C37: with a power-of-two alignment, the rounded size of every set that is
\* rounded is a multiple of the alignment, is not below the raw layout size,
\* and is less than one alignment above it; every set offset is a multiple of
\* the alignment.
C37_RoundedToLeastMultiple ==
    (dbmConstructed /\ HasSingleBit(dbAlignment))
        => /\ \A i \in 1 .. (Len(Offset) - 1) :
                /\ RoundedSizeOf(i) % dbAlignment = 0
                /\ RoundedSizeOf(i) >= LayoutSize(dbLayouts[i])
                /\ RoundedSizeOf(i) - dbAlignment < LayoutSize(dbLayouts[i])
           /\ \A i \in 1 .. Len(Offset) : Offset[i] % dbAlignment = 0

\* alignment 4 with a set of size 5 rounded to 8 and a set of size 0 left at 0
C37_Witness ==
    /\ dbmConstructed
    /\ dbAlignment = 4
    /\ Len(Offset) = 3
    /\ LayoutSize(dbLayouts[1]) = 2 /\ RoundedSizeOf(1) = 4
    /\ LayoutSize(dbLayouts[2]) = 0 /\ RoundedSizeOf(2) = 0
    /\ Offset[3] = 4

\* alignment 2 with a set of size 5 rounded to 6
C37_WitnessOdd ==
    /\ dbmConstructed
    /\ dbAlignment = 2
    /\ Len(Offset) = 2
    /\ LayoutSize(dbLayouts[1]) = 5
    /\ Offset[2] = 6

C38_MutedExactlyWhileScopeOpen ==
    nestedOnly
        => /\ \A mid \in MessageIds :
                isMessageDisabled(IgnoredMessageID, mid)
                    <=> \E i \in 1 .. Len(scopes) : scopes[i].mid = mid
           /\ lastEnd.valid => lastEnd.restored

\* an inner scope that disabled an id already muted has ended and the id is
\* still muted by the outer scope
C38_Witness ==
    /\ nestedOnly
    /\ lastEnd.valid
    /\ lastEnd.identifier = cend
    /\ lastIdentifier = cend
    /\ isMessageDisabled(IgnoredMessageID, lastEnd.mid)
    /\ Len(scopes) = 1
    /\ scopes[1].mid = lastEnd.mid

\* the outermost of two scopes on one id has ended and nothing is muted
C38_WitnessOuter ==
    /\ nestedOnly
    /\ lastEnd.valid
    /\ lastEnd.identifier = "0x5D1FD459"
    /\ scopes = << >>
    /\ IgnoredMessageID = { }

\* C31: in reshape, the swapchain is destroyed and the Reshape pool is reset
\* only after the device-idle wait of that reshape has returned successfully;
\* at that moment no command buffer of the Reshape pool is pending and no
\* submitted frame still uses the old swapchain.
C31_TeardownOnlyAfterDeviceIdle ==
    lastTeardown.valid => (lastTeardown.waited /\ lastTeardown.pending = { })

\* the Reshape pool is reset in a second reshape, after frames and the first
\* reshape's command buffer had been submitted
C31_Witness ==
    /\ lastTeardown.valid
    /\ lastTeardown.call = "vkResetCommandPool"
    /\ lastTeardown.waited
    /\ rsCount = 1
    /\ rsAttached
    /\ rsSwapChain = "destroyed"
    /\ rsCmdState = "Initial"

C33_CameraWriteOnlyAfterSlotWait ==
    lastCameraWrite.valid
        => /\ lastCameraWrite.index = lastCameraWrite.slot
           /\ lastCameraWrite.observed >= lastCameraWrite.lastSignalled
           /\ ~ lastCameraWrite.pending

\* slot 0's copy is written while a frame of slot 1 is still unfinished and a
\* frame of slot 0 has been submitted and finished
C33_Witness ==
    /\ lastCameraWrite.valid
    /\ lastCameraWrite.index = 0
    /\ lastCameraWrite.lastSignalled >= 1
    /\ drawPc = "render"
    /\ FrameInFlightIndex = 0
    /\ Pending(1) # {}

\* C11: no binary semaphore of a slot is signalled again while a signal on it
\* has not been consumed by a wait, and the host waits on no binary semaphore.
C11_BinarySemaphoreSinglePending ==
    /\ \A k \in Slots :
        /\ binPending[k].ImageAvailable <= 1
        /\ binPending[k].RenderFinish <= 1
    /\ hostWaited \subseteq { "WaitFrame" }

\* C15: when the queue submission of a draw call fails, submit has made exactly
\* one vkQueueSubmit2 call, the draw call ends with the error, and the frame is
\* not presented.
C15_SubmitFailureIsFatalToFrame ==
    drawTrace.submitThrew =>
        /\ Cardinality({ i \in 1 .. Len(drawTrace.submitCalls) :
                            drawTrace.submitCalls[i].call = "vkQueueSubmit2" }) = 1
        /\ drawPc = "idle"
        /\ drawResult = "threw"
        /\ drawTrace.presentCalls = 0

\* a draw call whose submission failed has ended, after an earlier frame was presented
C15_Witness ==
    /\ drawTrace.submitThrew
    /\ drawResult = "threw"
    /\ drawCalls >= 2
    /\ \E k \in Slots : presentWaits[k] + binPending[k].RenderFinish > 0 \/ timeline[k] > 0

\* C12: every staging, build-input and scratch buffer that the commands of a
\* setup submission use is destroyed only after a host wait has observed the
\* timeline value that submission signals.
C12_StagingOutlivesSubmission ==
    \A d \in destroyLog : d.object \in SetupTemporaries => d.unobserved = {}

\* C13: the acceleration structure built before compaction, with its buffer, is
\* destroyed only after a host wait has observed the timeline value signalled
\* by the submission that holds the compacting copy.
C13_UncompactedOutlivesCopy ==
    \A d \in destroyLog : d.object = UncompactedGAS => TerrainCompact \notin d.unobserved

\* C14: compactAccelStruct goes on to allocate the compacted buffer only with
\* the size the build wrote to the query: a call made before the build has
\* executed does not return from the query read until that result is
\* available, and the buffer is never created from a stale or zero size.
C14_CompactionWaitsForQuery ==
    /\ lastQueryRead.valid => lastQueryRead.state = "available"
    /\ compactPc \in { "allocate", "create", "copy", "done" } => (size = buildSize /\ size # 0)
    /\ compactedBuffer # 0 => compactedBuffer = buildSize

\* C16: beginning a command buffer that was begun since its last reset, and
\* ending a command buffer that is not being recorded, ends with an error and
\* is not accepted.
C16_BeginEndMisuseRaises ==
    (lastRecording.valid /\ ~ lastRecording.legal) => lastRecording.outcome # "accepted"

\* the size vkGetDescriptorSetLayoutSizeEXT reports for set i of the constructed manager
SetSize(i) == LayoutSize(dbLayouts[i])

\* the least multiple of the alignment that is not below the number
LeastMultipleAtLeast(num, mul) == ((num + mul - 1) \div mul) * mul

\* the space set i takes in the buffer: rounded up for every set but the last
SetSpace(i) ==
    IF i < Len(dbLayouts) THEN LeastMultipleAtLeast(SetSize(i), dbAlignment) ELSE SetSize(i)

\* C17 as stated: the computed set offsets are strictly increasing.
C17_OffsetsStrictlyIncreasing ==
    dbmConstructed => \A i \in 2 .. Len(Offset) : Offset[i - 1] < Offset[i]

\* C17 as amended: the computed set offsets never decrease, and an offset is
\* above its predecessor whenever the preceding layout has a size other than 0.
C17_OffsetsIncreasingPastNonEmptySets ==
    dbmConstructed =>
        \A i \in 2 .. Len(Offset) :
            /\ Offset[i - 1] <= Offset[i]
            /\ SetSize(i - 1) > 0 => Offset[i - 1] < Offset[i]
            /\ SetSize(i - 1) = 0 => Offset[i - 1] = Offset[i]

\* a manager over three sets, the middle one empty: one offset repeats, one grows
C17_Witness ==
    /\ dbmConstructed
    /\ Len(Offset) = 3
    /\ dbAlignment = 4
    /\ Offset[1] < Offset[2]
    /\ Offset[2] = Offset[3]

\* C18: the total size of the backing buffer is the sum of the set sizes with
\* every size but the last rounded up to the offset alignment and the last
\* taken as is, so the last set's region ends at the end of the buffer.
C18_TotalIsSumOfRoundedSizes ==
    dbmConstructed =>
        /\ dbTotalSize = SumSeq([ i \in 1 .. Len(dbLayouts) |-> SetSpace(i) ])
        /\ Len(Offset) > 0 => Offset[Len(Offset)] + SetSize(Len(Offset)) = dbTotalSize

\* a manager whose first size is rounded and whose last size is not a multiple
\* of the alignment
C18_Witness ==
    /\ dbmConstructed
    /\ Len(dbLayouts) >= 2
    /\ dbAlignment = 4
    /\ SetSize(1) % dbAlignment # 0
    /\ SetSize(Len(dbLayouts)) % dbAlignment # 0
    /\ dbTotalSize % dbAlignment # 0

\* C19: for a non-empty list the first offset is 0 and every later offset is
\* the previous offset plus the previous set's rounded size, so the byte
\* regions of two sets do not overlap.
C19_OffsetsAreExclusivePrefixSum ==
    (dbmConstructed /\ Len(dbLayouts) > 0) =>
        /\ Len(Offset) = Len(dbLayouts)
        /\ Offset[1] = 0
        /\ \A i \in 2 .. Len(Offset) : Offset[i] = Offset[i - 1] + SetSpace(i - 1)
        /\ \A i \in 1 .. Len(Offset), j \in 1 .. Len(Offset) :
            i < j => Offset[i] + SetSize(i) <= Offset[j]

\* a manager over several sets where rounding moved a later offset
C19_Witness ==
    /\ dbmConstructed
    /\ Len(Offset) >= 2
    /\ Offset[1] = 0
    /\ Offset[2] > SetSize(1)

(***************************************************************************)
(* Properties of owned handles and paired resources.                       *)
(***************************************************************************)

\* the wrappers that hold the native object
Holders(obj) == { w \in Wrappers : wrapper[w].alive /\ wrapper[w].Handle = obj }

\* C8: after any sequence of moves, once every wrapper is destroyed exactly one
\* native free call has been made for the native object, by the wrapper that
\* received it last; no free call is made while a wrapper still holds it, and
\* destroying an empty (moved-from or default-constructed) wrapper frees nothing.
C8_ExactlyOneFreeByLastOwner ==
    /\ \A obj \in created :
        /\ freeCalls[obj] <= 1
        /\ Holders(obj) # {} => freeCalls[obj] = 0
        /\ Holders(obj) = {} => (freeCalls[obj] = 1 /\ freedBy[obj] = lastOwner[obj])
    /\ (lastWrapperDestroy.valid /\ lastWrapperDestroy.wasEmpty) => lastWrapperDestroy.frees = 0

\* an object was moved away from the wrapper constructed from it, every wrapper
\* is destroyed, the moved-from one last
C8_Witness ==
    /\ \A w \in Wrappers : ~ wrapper[w].alive
    /\ \E obj \in created :
        /\ freeCalls[obj] = 1
        /\ freedBy[obj] # firstOwner[obj]
    /\ lastWrapperDestroy.valid
    /\ lastWrapperDestroy.wasEmpty

\* C9: whenever a paired resource releases the objects it owns, at destruction
\* or when another pair is assigned to it, the buffer is destroyed before the
\* memory allocation behind it is freed.
C9_BufferDestroyedBeforeMemoryFreed ==
    lastRelease.valid =>
        \A i \in 1 .. Len(lastRelease.calls), j \in 1 .. Len(lastRelease.calls) :
            ( /\ lastRelease.calls[i].call = "vkDestroyBuffer"
              /\ lastRelease.calls[j].call = "vmaFreeMemory"
              /\ lastRelease.calls[i].resource = lastRelease.calls[j].resource ) => i < j

====
